---- MODULE Spec2Model ----
(***************************************************************************)
(* A model of the core of the WhatsApp football analyzer: the event        *)
(* deduplicator (regex_analyzer.py), the filter/sort engine                *)
(* (src/filter.py), the event store and the event serialization            *)
(* (src/extractor.py) and the two message segmenters (src/parser.py,       *)
(* regex_analyzer.py).                                                     *)
(*                                                                         *)
(* Text is modelled as a sequence of one-character strings, so that        *)
(* slicing, stripping and formatting are computed and not assumed.         *)
(* Confidences are hundredths (0.6 is 60).  Each component has its own     *)
(* variables and its own specification; a specification leaves the other   *)
(* components' variables at their idle values.                             *)
(***************************************************************************)
EXTENDS Integers, Sequences, FiniteSets, TLC

VARIABLES
    events,       \* deduplicator: the list about to be deduplicated
    deduped,      \* deduplicator: deduplicate(events)
    rededuped,    \* deduplicator: deduplicate(deduped)
    passes,       \* deduplicator: number of deduplicate() calls made so far
    stored,       \* filter/sort: the list of Event handed to filter_events / sort_events
    criteria,     \* filter: the FilterCriteria of the last filter_events call
    sortArgs,     \* sort: the (by, reverse) arguments of the last sort_events call
    result,       \* filter/sort: the list the last call returned
    called,       \* filter/sort: "none", "filter" or "sort", the last call made
    db_events,    \* event store: self.events, the stored events in insertion order
    db_before,    \* event store: self.events as it was when the last add() was entered
    add_arg,      \* event store: the event passed to the last add()
    add_ret,      \* event store: what the last add() returned (FALSE before any call)
    first_added,  \* event store: for each id, the first event add() was called with
    original,     \* serialization: the Event being serialized
    data,         \* serialization: original.to_dict()
    restored,     \* serialization: Event.from_dict(data)
    ser_pc,       \* serialization: "new", "event", "dict" or "restored"
    lines,        \* segmentation: content.split('\n'), the lines of the export
    seg_impl,     \* segmentation: "parser" (parse_export_text) or "regex" (parse_content)
    seg,          \* segmentation: the objects and the list the parse built
    reseg,        \* segmentation: the same for the parse of the re-formatted output
    seg_pc,       \* segmentation: "input", "parsed" or "reparsed"
    message,      \* extraction: the WhatsAppMessage handed to the extractor
    written,      \* extraction: the number of phrases written into the message
    call,         \* extraction: the extractor operation called last ("none" before any)
    ret,          \* extraction: what that operation returned
    db_file,      \* event store: the file at db_path
    db_open,      \* event store: how EventDatabase(db_path) ended: "none" before the
                  \* call, "loaded" when it returned, else the exception raised
    entry_event,  \* calendar entry: the Event to be entered in the calendar
    entry_call,   \* calendar entry: the operation called last ("none" before any)
    entry,        \* calendar entry: the calendar event that operation built
    sync_events,  \* calendar sync: the events passed to sync_events_to_calendar
    calendar,     \* calendar sync: the ids of the events the Google calendar holds
    sync_results, \* calendar sync: the dict sync_events_to_calendar returned
    sync_pc,      \* calendar sync: "input" or "done"
    mem,          \* persistence: self.events of the EventDatabase in use
    disk,         \* persistence: the file at db_path
    at_save,      \* persistence: self.events as it was at the last save()
    reopened,     \* persistence: self.events of the EventDatabase opened last on the path
    persist_pc,   \* persistence: "open", "saved" or "reopened"
    all_events,   \* quick analyzer: the events an analysis finds
    chat,         \* quick analyzer: the messages of the notify group, oldest first
    runs,         \* quick analyzer: per finished run, its --force flag and the events it sent
    clock,        \* incremental sync: the time (UTC), in hours
    utc_offset,   \* incremental sync: what datetime.now() is ahead of UTC, in hours
    group_msgs,   \* incremental sync: the timestamps of the messages of the group, oldest first
    last_sync,    \* incremental sync: the timestamp in the last-sync file (NoneInt: no file)
    wacli_messages, \* incremental sync: how many messages the running sync fetched
    sync_runs,    \* incremental sync: per finished run, what it fetched, its cutoff, what it analysed
    incr_impl,    \* incremental sync: "run" (run.py) or "main" (the sync command of main.py)
    incr_pc,      \* incremental sync: "idle" or "fetched"
    pipe_content, \* the chat text typed so far
    pipe_phrase,  \* the phrase that is next to be taken or left out
    pipe_messages, \* what parse_content returned
    pipe_events,  \* what extract_events returned
    pipe_pc       \* "off", "typing", "parsed" or "extracted"

dedupVars == <<events, deduped, rededuped, passes>>
filterVars == <<stored, criteria, sortArgs, result, called>>

dbVars == <<db_events, db_before, add_arg, add_ret, first_added>>

serialVars == <<original, data, restored, ser_pc>>
segVars == <<lines, seg_impl, seg, reseg, seg_pc>>
extractVars == <<message, written, call, ret>>
loadVars == <<db_file, db_open>>
entryVars == <<entry_event, entry_call, entry>>
calSyncVars == <<sync_events, calendar, sync_results, sync_pc>>
persistVars == <<mem, disk, at_save, reopened, persist_pc>>
postedVars == <<all_events, chat, runs>>
incrVars == <<clock, utc_offset, group_msgs, last_sync, wacli_messages, sync_runs, incr_impl, incr_pc>>
pipeVars == <<pipe_content, pipe_phrase, pipe_messages, pipe_events, pipe_pc>>

vars == <<events, deduped, rededuped, passes, stored, criteria, sortArgs, result, called,
          db_events, db_before, add_arg, add_ret, first_added,
          original, data, restored, ser_pc,
          lines, seg_impl, seg, reseg, seg_pc,
          message, written, call, ret, db_file, db_open,
          entry_event, entry_call, entry,
          sync_events, calendar, sync_results, sync_pc,
          mem, disk, at_save, reopened, persist_pc,
          all_events, chat, runs,
          clock, utc_offset, group_msgs, last_sync, wacli_messages, sync_runs, incr_impl, incr_pc,
          pipe_content, pipe_phrase, pipe_messages, pipe_events, pipe_pc>>

\* What a step of one component leaves alone.
notDedupVars == <<filterVars, dbVars, serialVars, segVars, extractVars, loadVars, entryVars, calSyncVars, persistVars, postedVars, incrVars, pipeVars>>
notFilterVars == <<dedupVars, dbVars, serialVars, segVars, extractVars, loadVars, entryVars, calSyncVars, persistVars, postedVars, incrVars, pipeVars>>
notDbVars == <<dedupVars, filterVars, serialVars, segVars, extractVars, loadVars, entryVars, calSyncVars, persistVars, postedVars, incrVars, pipeVars>>
notSerialVars == <<dedupVars, filterVars, dbVars, segVars, extractVars, loadVars, entryVars, calSyncVars, persistVars, postedVars, incrVars, pipeVars>>
notSegVars == <<dedupVars, filterVars, dbVars, serialVars, extractVars, loadVars, entryVars, calSyncVars, persistVars, postedVars, incrVars, pipeVars>>
notExtractVars == <<dedupVars, filterVars, dbVars, serialVars, segVars, loadVars, entryVars, calSyncVars, persistVars, postedVars, incrVars, pipeVars>>
notLoadVars == <<dedupVars, filterVars, serialVars, segVars, extractVars,
                 db_before, add_arg, add_ret, first_added, entryVars, calSyncVars, persistVars, postedVars, incrVars, pipeVars>>
notEntryVars == <<dedupVars, filterVars, dbVars, serialVars, segVars, extractVars, loadVars, calSyncVars, persistVars, postedVars, incrVars, pipeVars>>
notCalSyncVars == <<dedupVars, filterVars, dbVars, serialVars, segVars, extractVars, loadVars, entryVars, persistVars, postedVars, incrVars, pipeVars>>
notPersistVars == <<dedupVars, filterVars, dbVars, serialVars, segVars, extractVars, loadVars, entryVars, calSyncVars, postedVars, incrVars, pipeVars>>
notPostedVars == <<dedupVars, filterVars, dbVars, serialVars, segVars, extractVars, loadVars, entryVars, calSyncVars, persistVars, incrVars, pipeVars>>
notIncrVars == <<dedupVars, filterVars, dbVars, serialVars, segVars, extractVars, loadVars, entryVars, calSyncVars, persistVars, postedVars, pipeVars>>
notPipeVars == <<dedupVars, filterVars, dbVars, serialVars, segVars, extractVars, loadVars, entryVars, calSyncVars, persistVars, postedVars, incrVars>>

\* Python's None.
None == "None"

Min(a, b) == IF a <= b THEN a ELSE b

Reverse(s) == [i \in 1..Len(s) |-> s[Len(s) + 1 - i]]

(***************************************************************************)
(* Filter/sort engine (src/filter.py) over Event (src/extractor.py)        *)
(***************************************************************************)

\* None in an integer field (date, skill_level, min_level, ...) and in a text
\* field (location, organizer, age_group, ...).  Dates are the integers
\* YYYYMMDD, whose order is the order of the dates.
NoneInt == -1
NoneStr == <<"None">>
\* None in a field that holds a list of texts (age_groups).
NoneList == <<NoneStr>>

\* Largest list handed to filter_events or sort_events.
MaxStored == 2

\* date.max
DateMax == 99991231

\* The letters of the model's texts.  SANY reads ASCII only: "ae", "oe", "ue",
\* "AE", "OE", "UE" and "sz" are the one-character strings a-, o-, u-umlaut
\* and sharp s.
LowerLetters ==
    <<"a", "b", "c", "d", "e", "f", "g", "h", "i", "j", "k", "l", "m", "n", "o",
      "p", "q", "r", "s", "t", "u", "v", "w", "x", "y", "z", "ae", "oe", "ue">>
UpperLetters ==
    <<"A", "B", "C", "D", "E", "F", "G", "H", "I", "J", "K", "L", "M", "N", "O",
      "P", "Q", "R", "S", "T", "U", "V", "W", "X", "Y", "Z", "AE", "OE", "UE">>

LowerChar(c) ==
    IF \E k \in 1..Len(UpperLetters) : UpperLetters[k] = c
    THEN LowerLetters[CHOOSE k \in 1..Len(UpperLetters) : UpperLetters[k] = c]
    ELSE c

\* str.lower()
Lower(str) == [i \in 1..Len(str) |-> LowerChar(str[i])]

\* str.replace(ch, '')
RECURSIVE Remove(_, _)
Remove(str, ch) ==
    IF str = <<>> THEN <<>>
    ELSE IF Head(str) = ch THEN Remove(Tail(str), ch)
    ELSE <<Head(str)>> \o Remove(Tail(str), ch)

\* sub in str
Contains(sub, str) ==
    \E i \in 0..(Len(str) - Len(sub)) : SubSeq(str, i + 1, i + Len(sub)) = sub

Berlin == <<"B","e","r","l","i","n">>
Halle == <<"H","a","l","l","e">>
FCTest == <<"F","C"," ","T","e","s","t">>
DJugend == <<"D","-","J","u","g","e","n","d">>
EJugend == <<"E","-","J","u","g","e","n","d">>

\* The fields of Event that filter.py reads.
BaseEvent ==
    [id |-> 0, event_type |-> "tournament", date |-> 20260125, location |-> Berlin,
     skill_level |-> 5, age_group |-> DJugend, organizer |-> FCTest, status |-> "open"]

\* The events handed to the engine: the base event and every event that
\* differs from it in one field.
StoredEvents ==
    {BaseEvent}
    \cup {[BaseEvent EXCEPT !.date = d] : d \in {NoneInt, 20260110}}
    \cup {[BaseEvent EXCEPT !.skill_level = l] : l \in {NoneInt, 2}}
    \cup {[BaseEvent EXCEPT !.age_group = a] : a \in {NoneStr, EJugend}}
    \cup {[BaseEvent EXCEPT !.event_type = "friendly_match"]}
    \cup {[BaseEvent EXCEPT !.status = "full"]}
    \cup {[BaseEvent EXCEPT !.location = l] : l \in {NoneStr, Halle}}
    \cup {[BaseEvent EXCEPT !.organizer = NoneStr]}

\* FilterCriteria() with its defaults.
DefaultCriteria ==
    [date_from |-> NoneInt, date_to |-> NoneInt, min_level |-> NoneInt,
     max_level |-> NoneInt, age_groups |-> NoneList, event_types |-> NoneStr,
     only_open |-> TRUE, location_contains |-> NoneStr,
     organizer_contains |-> NoneStr]

\* The values a caller sets one field of the criteria to.
CriteriaSettings ==
    {[f \in {"date_from"} |-> 20260120], [f \in {"date_to"} |-> 20260120],
     [f \in {"min_level"} |-> 0], [f \in {"min_level"} |-> 3],
     [f \in {"max_level"} |-> 3],
     [f \in {"age_groups"} |-> <<>>],
     [f \in {"age_groups"} |-> << <<"d"," ","j","u","g","e","n","d">> >>],
     [f \in {"event_types"} |-> <<"tournament">>],
     [f \in {"only_open"} |-> FALSE],
     [f \in {"location_contains"} |-> <<"b","e","r">>],
     [f \in {"organizer_contains"} |-> <<"f","c">>]}

\* The criteria of a query: the defaults with up to two fields set.
CriteriaSet ==
    {DefaultCriteria}
    \cup {s @@ DefaultCriteria : s \in CriteriaSettings}
    \cup {s @@ t @@ DefaultCriteria : s, t \in CriteriaSettings}

Mut_filter_by_date(event, date_from, date_to) ==
    IF event.date = NoneInt THEN TRUE
    ELSE IF date_from # NoneInt /\ event.date < date_from THEN FALSE
    ELSE IF date_to # NoneInt /\ event.date > date_to THEN FALSE
    ELSE TRUE
filter_by_date(event, date_from, date_to) ==
    IF event.date = NoneInt THEN date_from = NoneInt /\ date_to = NoneInt
    ELSE IF date_from # NoneInt /\ event.date < date_from THEN FALSE
    ELSE IF date_to # NoneInt /\ event.date > date_to THEN FALSE
    ELSE TRUE

\* `if min_level and ...`: a level of 0 is as good as unset.
Mut_filter_by_level(event, min_level, max_level) ==
    IF min_level # NoneInt /\ min_level # 0 /\ event.skill_level < min_level THEN FALSE
    ELSE IF max_level # NoneInt /\ max_level # 0 /\ event.skill_level > max_level THEN FALSE
    ELSE TRUE
filter_by_level(event, min_level, max_level) ==
    IF event.skill_level = NoneInt THEN TRUE
    ELSE IF min_level # NoneInt /\ min_level # 0 /\ event.skill_level < min_level THEN FALSE
    ELSE IF max_level # NoneInt /\ max_level # 0 /\ event.skill_level > max_level THEN FALSE
    ELSE TRUE

NormalizeAge(str) == Remove(Remove(Lower(str), "-"), " ")

filter_by_age_group(event, age_groups) ==
    IF age_groups = NoneList \/ age_groups = <<>> THEN TRUE
    ELSE IF event.age_group = NoneStr THEN TRUE
    ELSE LET event_age == NormalizeAge(event.age_group)
         IN  \E k \in 1..Len(age_groups) :
                 \/ Contains(NormalizeAge(age_groups[k]), event_age)
                 \/ Contains(event_age, NormalizeAge(age_groups[k]))

filter_by_type(event, event_types) ==
    IF event_types = NoneStr \/ event_types = <<>> THEN TRUE
    ELSE \E k \in 1..Len(event_types) : event_types[k] = event.event_type

filter_by_status(event, only_open) ==
    IF ~only_open THEN TRUE ELSE event.status = "open"

filter_by_location(event, location_contains) ==
    IF location_contains = NoneStr \/ location_contains = <<>> THEN TRUE
    ELSE IF event.location = NoneStr THEN FALSE
    ELSE Contains(Lower(location_contains), Lower(event.location))

filter_by_organizer(event, organizer_contains) ==
    IF organizer_contains = NoneStr \/ organizer_contains = <<>> THEN TRUE
    ELSE IF event.organizer = NoneStr THEN FALSE
    ELSE Contains(Lower(organizer_contains), Lower(event.organizer))

\* The body of the loop of filter_events: TRUE when the event is appended,
\* FALSE when one of the checks `continue`s.
MutKeepEvent(event, c) ==
    IF ~filter_by_date(event, c.date_from, c.date_to) THEN FALSE
    ELSE IF ~filter_by_level(event, c.min_level, c.max_level) THEN FALSE
    ELSE IF ~filter_by_age_group(event, c.age_groups) THEN FALSE
    ELSE IF ~filter_by_type(event, c.event_types) THEN FALSE
    ELSE IF ~filter_by_location(event, c.location_contains) THEN FALSE
    ELSE IF ~filter_by_organizer(event, c.organizer_contains) THEN FALSE
    ELSE TRUE
KeepEvent(event, c) ==
    IF ~filter_by_date(event, c.date_from, c.date_to) THEN FALSE
    ELSE IF ~filter_by_level(event, c.min_level, c.max_level) THEN FALSE
    ELSE IF ~filter_by_age_group(event, c.age_groups) THEN FALSE
    ELSE IF ~filter_by_type(event, c.event_types) THEN FALSE
    ELSE IF ~filter_by_status(event, c.only_open) THEN FALSE
    ELSE IF ~filter_by_location(event, c.location_contains) THEN FALSE
    ELSE IF ~filter_by_organizer(event, c.organizer_contains) THEN FALSE
    ELSE TRUE

RECURSIVE FilterLoop(_, _, _, _)
FilterLoop(evs, i, c, acc) ==
    IF i > Len(evs) THEN acc
    ELSE FilterLoop(evs, i + 1, c,
                    IF KeepEvent(evs[i], c) THEN Append(acc, evs[i]) ELSE acc)

filter_events(evs, c) == FilterLoop(evs, 1, c, <<>>)

\* str < str on the event types.
TypeRank(t) == IF t = "friendly_match" THEN 1 ELSE 2

\* The key lambdas of sort_events, each as a pair compared left to right;
\* `e.date or date.max`, `e.skill_level or 0`.
SortKey(by, e) ==
    CASE by = "date" ->
            <<IF e.date = NoneInt THEN 1 ELSE 0,
              IF e.date = NoneInt THEN DateMax ELSE e.date>>
      [] by = "level" ->
            <<IF e.skill_level = NoneInt THEN 1 ELSE 0,
              IF e.skill_level = NoneInt THEN 0 ELSE e.skill_level>>
      [] by = "type" -> <<0, TypeRank(e.event_type)>>
      [] OTHER -> <<0, e.id>>

KeyLess(a, b) == a[1] < b[1] \/ (a[1] = b[1] /\ a[2] < b[2])

\* sorted() is stable in both directions: an element goes in front of the
\* first element that must come strictly after it.
RECURSIVE InsertSorted(_, _, _, _)
InsertSorted(acc, e, by, reverse) ==
    IF acc = <<>> THEN <<e>>
    ELSE LET after == IF reverse THEN KeyLess(SortKey(by, Head(acc)), SortKey(by, e))
                                 ELSE KeyLess(SortKey(by, e), SortKey(by, Head(acc)))
         IN  IF after THEN <<e>> \o acc
             ELSE <<Head(acc)>> \o InsertSorted(Tail(acc), e, by, reverse)

RECURSIVE SortLoop(_, _, _, _, _)
SortLoop(evs, i, by, reverse, acc) ==
    IF i > Len(evs) THEN acc
    ELSE SortLoop(evs, i + 1, by, reverse, InsertSorted(acc, evs[i], by, reverse))

\* sorted(events, key=key, reverse=reverse)
sort_events(evs, by, reverse) == SortLoop(evs, 1, by, reverse, <<>>)

FilterIdle ==
    /\ stored = <<>>
    /\ criteria = DefaultCriteria
    /\ sortArgs = [by |-> "date", reverse |-> FALSE]
    /\ result = <<>>
    /\ called = "none"

\* One more event is in the list the caller holds; its id is its position.
StoreEvent ==
    /\ called = "none"
    /\ Len(stored) < MaxStored
    /\ \E e \in StoredEvents :
          stored' = Append(stored, [e EXCEPT !.id = Len(stored) + 1])
    /\ UNCHANGED <<criteria, sortArgs, result, called>>
    /\ UNCHANGED notFilterVars

\* result = filter_events(stored, c)
FilterEvents ==
    /\ called = "none"
    /\ \E c \in CriteriaSet :
          /\ criteria' = c
          /\ result' = filter_events(stored, c)
    /\ called' = "filter"
    /\ UNCHANGED <<stored, sortArgs>>
    /\ UNCHANGED notFilterVars

\* result = sort_events(stored, by, reverse)
SortEvents ==
    /\ called = "none"
    /\ \E by \in {"date", "level", "type", "id"}, reverse \in BOOLEAN :
          /\ sortArgs' = [by |-> by, reverse |-> reverse]
          /\ result' = sort_events(stored, by, reverse)
    /\ called' = "sort"
    /\ UNCHANGED <<stored, criteria>>
    /\ UNCHANGED notFilterVars

FilterNext == StoreEvent \/ FilterEvents \/ SortEvents

(***************************************************************************)
(* EventDatabase (src/extractor.py)                                        *)
(***************************************************************************)

\* Number of distinct event ids the callers of the store use.
MaxIds == 3

\* The events handed to the store: each id in two versions.
DbEvents ==
    {[BaseEvent EXCEPT !.id = i, !.status = st] : i \in 1..MaxIds, st \in {"open", "full"}}

\* event.id in self.events
InStore(evs, id) == \E k \in 1..Len(evs) : evs[k].id = id

\* self.events[id]
Stored(evs, id) == evs[CHOOSE k \in 1..Len(evs) : evs[k].id = id]

\* self.events[event.id] = event: a new key goes last, a present key keeps
\* its place.
SetItem(evs, event) ==
    IF InStore(evs, event.id)
    THEN [k \in 1..Len(evs) |-> IF evs[k].id = event.id THEN event ELSE evs[k]]
    ELSE Append(evs, event)

\* EventDatabase.add: the store afterwards and the value returned.
Mut_add(evs, event) ==
    [events |-> SetItem(evs, event), ret |-> ~InStore(evs, event.id)]
add(evs, event) ==
    IF ~InStore(evs, event.id)
    THEN [events |-> SetItem(evs, event), ret |-> TRUE]
    ELSE [events |-> evs, ret |-> FALSE]

\* EventDatabase(path) on a path with no file.
DbIdle ==
    /\ db_events = <<>>
    /\ db_before = <<>>
    /\ add_arg = BaseEvent
    /\ add_ret = FALSE
    /\ first_added = <<>>

\* db.add(event)
Add ==
    /\ \E event \in DbEvents :
          LET r == add(db_events, event)
          IN  /\ db_events' = r.events
              /\ add_ret' = r.ret
              /\ add_arg' = event
              /\ first_added' = IF InStore(first_added, event.id) THEN first_added
                                ELSE Append(first_added, event)
    /\ db_before' = db_events
    /\ UNCHANGED notDbVars

DbNext == Add

(***************************************************************************)
(* Event.to_dict / Event.from_dict (src/extractor.py)                      *)
(***************************************************************************)

Digits == <<"0", "1", "2", "3", "4", "5", "6", "7", "8", "9">>

DigitValue(ch) == (CHOOSE k \in 1..Len(Digits) : Digits[k] = ch) - 1

\* "%0<width>d" % n
RECURSIVE ZeroPadded(_, _)
ZeroPadded(n, width) ==
    IF width = 0 THEN <<>>
    ELSE ZeroPadded(n \div 10, width - 1) \o <<Digits[(n % 10) + 1]>>

\* int(str) of a string of digits
RECURSIVE ParseInt(_)
ParseInt(str) ==
    IF str = <<>> THEN 0
    ELSE 10 * ParseInt(SubSeq(str, 1, Len(str) - 1)) + DigitValue(str[Len(str)])

\* date.isoformat(): YYYY-MM-DD
IsoDate(d) ==
    ZeroPadded(d \div 10000, 4) \o <<"-">> \o ZeroPadded((d \div 100) % 100, 2)
        \o <<"-">> \o ZeroPadded(d % 100, 2)

\* date.fromisoformat()
FromIsoDate(str) ==
    ParseInt(SubSeq(str, 1, 4)) * 10000 + ParseInt(SubSeq(str, 6, 7)) * 100
        + ParseInt(SubSeq(str, 9, 10))

\* A datetime, and None in a datetime field.
DateTime(d, h, mi, sec, us) ==
    [date |-> d, hour |-> h, minute |-> mi, second |-> sec, microsecond |-> us]
NoneDateTime == DateTime(NoneInt, 0, 0, 0, 0)

\* datetime.isoformat(): YYYY-MM-DDTHH:MM:SS, and .ffffff when the
\* microsecond is not 0.
MutIsoDateTime(dt) ==
    IsoDate(dt.date) \o <<"T">> \o ZeroPadded(dt.hour, 2) \o <<":">>
        \o ZeroPadded(dt.minute, 2) \o <<":">> \o ZeroPadded(dt.second, 2)
IsoDateTime(dt) ==
    IsoDate(dt.date) \o <<"T">> \o ZeroPadded(dt.hour, 2) \o <<":">>
        \o ZeroPadded(dt.minute, 2) \o <<":">> \o ZeroPadded(dt.second, 2)
        \o (IF dt.microsecond # 0
            THEN <<".">> \o ZeroPadded(dt.microsecond, 6) ELSE <<>>)

\* datetime.fromisoformat()
FromIsoDateTime(str) ==
    DateTime(FromIsoDate(SubSeq(str, 1, 10)),
             ParseInt(SubSeq(str, 12, 13)), ParseInt(SubSeq(str, 15, 16)),
             ParseInt(SubSeq(str, 18, 19)),
             IF Len(str) > 19 THEN ParseInt(SubSeq(str, 21, 26)) ELSE 0)

NineOClock == <<"0", "9", ":", "0", "0">>

\* An Event with all its fields.
Event(d, tstart, loc, level, fee, ts) ==
    [id |-> <<"1">>, event_type |-> "tournament", date |-> d, time_start |-> tstart,
     time_end |-> NoneStr, location |-> loc, maps_url |-> NoneStr,
     skill_level |-> level, age_group |-> DJugend, organizer |-> FCTest,
     contact_phone |-> NoneStr, contact_name |-> NoneStr, status |-> "open",
     catering |-> FALSE, entry_fee |-> fee, raw_text |-> <<>>, summary |-> <<>>,
     source_timestamp |-> ts]

\* The valid events that are serialized: every optional field both None and
\* populated.
SerialEvents ==
    {Event(d, tstart, loc, level, fee, ts) :
        d \in {NoneInt, 20260125, 9991231},
        tstart \in {NoneStr, NineOClock},
        loc \in {NoneStr, Berlin},
        level \in {NoneInt, 5},
        fee \in {NoneInt, 20},
        ts \in {NoneDateTime, DateTime(20260116, 13, 32, 0, 0),
                DateTime(20261102, 2, 26, 4, 509237)}}

\* Event.to_dict: asdict, then the two date fields as ISO text when truthy.
to_dict(e) ==
    [e EXCEPT
        !.date = IF e.date # NoneInt THEN IsoDate(e.date) ELSE NoneStr,
        !.source_timestamp =
            IF e.source_timestamp # NoneDateTime
            THEN IsoDateTime(e.source_timestamp) ELSE NoneStr]

\* Event.from_dict: the two date fields parsed when truthy (neither None nor
\* the empty text), then cls(**data).
from_dict(d) ==
    [d EXCEPT
        !.date = IF d.date # NoneStr /\ d.date # <<>>
                 THEN FromIsoDate(d.date) ELSE NoneInt,
        !.source_timestamp =
            IF d.source_timestamp # NoneStr /\ d.source_timestamp # <<>>
            THEN FromIsoDateTime(d.source_timestamp) ELSE NoneDateTime]

SerialIdle ==
    /\ original = Event(NoneInt, NoneStr, NoneStr, NoneInt, NoneInt, NoneDateTime)
    /\ data = to_dict(original)
    /\ restored = original
    /\ ser_pc = "idle"

SerialInit ==
    /\ original = Event(NoneInt, NoneStr, NoneStr, NoneInt, NoneInt, NoneDateTime)
    /\ data = to_dict(original)
    /\ restored = original
    /\ ser_pc = "new"

\* The caller builds an event.
MakeEvent ==
    /\ ser_pc = "new"
    /\ original' \in SerialEvents
    /\ ser_pc' = "event"
    /\ UNCHANGED <<data, restored>>
    /\ UNCHANGED notSerialVars

\* data = original.to_dict()
ToDict ==
    /\ ser_pc = "event"
    /\ data' = to_dict(original)
    /\ ser_pc' = "dict"
    /\ UNCHANGED <<original, restored>>
    /\ UNCHANGED notSerialVars

\* restored = Event.from_dict(data)
FromDict ==
    /\ ser_pc = "dict"
    /\ restored' = from_dict(data)
    /\ ser_pc' = "restored"
    /\ UNCHANGED <<original, data>>
    /\ UNCHANGED notSerialVars

SerialNext == MakeEvent \/ ToDict \/ FromDict

(***************************************************************************)
(* Message segmentation: parse_export_text (src/parser.py) and             *)
(* WhatsAppChatParser.parse_content (regex_analyzer.py)                    *)
(*                                                                         *)
(* A line of an export is a record.  A "bracket" line reads                *)
(* "[HH:00, n1<sep>n2<sep>2026] sender: text", a "plain" line reads        *)
(* "n1<sep>n2<sep>2026, HH:00 - sender: text" (day, month and hour written *)
(* with two digits), and a "text" line is any other text.  A text is a     *)
(* sequence of words and blanks.  The content of a Message is the sequence *)
(* of the lines that "\n" joins: its first line is the header's text.      *)
(***************************************************************************)

\* Longest export that is segmented.
MaxLines == 3

\* The year of every header line.
ExportYear == 2026

HeaderLine(kind, sep, n1, n2, hour, sender, text) ==
    [kind |-> kind, sep |-> sep, n1 |-> n1, n2 |-> n2, hour |-> hour,
     sender |-> sender, text |-> text]
TextLine(text) == HeaderLine("text", "/", 0, 0, 0, <<>>, text)

\* The two leading numbers of a date: valid both as month/day and as
\* day/month, valid as day/month only, valid as neither (31 February).
DatePairs == {<<2, 1>>, <<13, 1>>, <<31, 2>>}

Hi == <<" ", "hi", " ">>
MediaOmitted == <<"<Media omitted>">>
Bild == <<"Bild", " ", "(file attached)">>

ExportLines ==
    {HeaderLine(kind, sep, dp[1], dp[2], 10, <<"A">>, Hi) :
        kind \in {"bracket", "plain"}, sep \in {"/", "."}, dp \in DatePairs}
    \cup {HeaderLine(kind, "/", 13, 1, 11, <<" ", "B">>, text) :
        kind \in {"bracket", "plain"}, text \in {MediaOmitted, Bild}}
    \cup {TextLine(<<"foo", " ">>), TextLine(<<>>)}

DaysInMonth == <<31, 28, 31, 30, 31, 30, 31, 31, 30, 31, 30, 31>>

\* What strptime accepts as month, day and hour (the year is 2026, the
\* minute 00).
ValidDate(month, day, hour) ==
    /\ month \in 1..12
    /\ day \in 1..31
    /\ day <= DaysInMonth[month]
    /\ hour \in 0..23

Timestamp(month, day, hour) ==
    DateTime(ExportYear * 10000 + month * 100 + day, hour, 0, 0, 0)

\* parse_timestamp: month/day/year first, day/month/year second; the third
\* format, year/month/day, matches no date the line patterns let through.
\* ok = FALSE is the ValueError.
parse_timestamp(hour, n1, n2) ==
    IF ValidDate(n1, n2, hour) THEN [ok |-> TRUE, ts |-> Timestamp(n1, n2, hour)]
    ELSE IF ValidDate(n2, n1, hour) THEN [ok |-> TRUE, ts |-> Timestamp(n2, n1, hour)]
    ELSE [ok |-> FALSE, ts |-> NoneDateTime]

\* datetime.strptime(..., "%d/%m/%Y %H:%M") and "%d.%m.%Y %H:%M"
strptime_dmy(hour, n1, n2) ==
    IF ValidDate(n2, n1, hour) THEN [ok |-> TRUE, ts |-> Timestamp(n2, n1, hour)]
    ELSE [ok |-> FALSE, ts |-> NoneDateTime]

\* str.strip()
RECURSIVE LStrip(_)
LStrip(text) ==
    IF text # <<>> /\ Head(text) = " " THEN LStrip(Tail(text)) ELSE text
Strip(text) == Reverse(LStrip(Reverse(LStrip(text))))

\* MEDIA_PATTERN.search(text)
MediaPatternSearch(text) ==
    \E k \in 1..Len(text) : text[k] \in {"<Media omitted>", "Bild"}

HasWord(text, word) == \E k \in 1..Len(text) : text[k] = word

\* MESSAGE_PATTERN and MESSAGE_PATTERN_ALT of parser.py.
MatchesPattern(line) == line.kind = "bracket"
MatchesPatternAlt(line) == line.kind = "plain" /\ line.sep = "/"

\* MESSAGE_LINE and MESSAGE_LINE_ALT of regex_analyzer.py.
MatchesMessageLine(line) == line.kind = "plain" /\ line.sep = "/"
MatchesMessageLineAlt(line) == line.kind = "plain" /\ line.sep = "."

Message(ts, sender, content, has_media) ==
    [timestamp |-> ts, sender |-> sender, content |-> content, has_media |-> has_media]

\* The state of a parse: the Message objects made so far (an object is its
\* index in heap), the line each was made for, the list `messages` of
\* references and the reference `current_message` (0 is None).
EmptyParse == [heap |-> <<>>, origin |-> <<>>, messages |-> <<>>, current |-> 0]

\* if current_message: messages.append(current_message)
SavePrevious(st) ==
    IF st.current # 0 THEN [st EXCEPT !.messages = Append(@, st.current)] ELSE st

\* current_message = Message(...), made for line i.
NewMessage(st, i, msg) ==
    [st EXCEPT !.heap = Append(@, msg), !.origin = Append(@, i),
               !.current = Len(st.heap) + 1]

\* if current_message: current_message.content += '\n' + line
MutContinuation(st, line) ==
    IF st.messages # <<>>
    THEN [st EXCEPT !.heap[st.messages[Len(st.messages)]].content = Append(@, line)]
    ELSE st
Continuation(st, line) ==
    IF st.current # 0
    THEN [st EXCEPT !.heap[st.current].content = Append(@, line)]
    ELSE st

\* One iteration of the loop of parse_export_text.
ParseExportStep(st, i, line) ==
    IF MatchesPattern(line) \/ MatchesPatternAlt(line)
    THEN LET saved == SavePrevious(st)
             parsed == parse_timestamp(line.hour, line.n1, line.n2)
             has_media ==
                 IF MatchesPattern(line) THEN MediaPatternSearch(line.text)
                 ELSE MediaPatternSearch(line.text)
                          \/ HasWord(line.text, "<Media omitted>")
         IN  IF ~parsed.ok THEN saved
             ELSE NewMessage(saved, i,
                      Message(parsed.ts, Strip(line.sender),
                              <<TextLine(Strip(line.text))>>, has_media))
    ELSE Continuation(st, line)

RECURSIVE ParseExportLoop(_, _, _)
ParseExportLoop(ls, i, st) ==
    IF i > Len(ls) THEN st
    ELSE ParseExportLoop(ls, i + 1, ParseExportStep(st, i, ls[i]))

parse_export_text(ls) == SavePrevious(ParseExportLoop(ls, 1, EmptyParse))

\* One iteration of the loop of parse_content; now is datetime.now().
ParseContentStep(st, i, line, now) ==
    IF MatchesMessageLine(line) \/ MatchesMessageLineAlt(line)
    THEN LET saved == SavePrevious(st)
             parsed == strptime_dmy(line.hour, line.n1, line.n2)
             ts == IF parsed.ok THEN parsed.ts ELSE now
             has_media == HasWord(line.text, "<Media omitted>")
                              \/ HasWord(line.text, "(file attached)")
         IN  NewMessage(saved, i,
                 Message(ts, Strip(line.sender), <<TextLine(Strip(line.text))>>,
                         has_media))
    ELSE Continuation(st, line)

RECURSIVE ParseContentLoop(_, _, _, _)
ParseContentLoop(ls, i, st, now) ==
    IF i > Len(ls) THEN st
    ELSE ParseContentLoop(ls, i + 1, ParseContentStep(st, i, ls[i], now), now)

parse_content(ls, now) == SavePrevious(ParseContentLoop(ls, 1, EmptyParse, now))

\* The list a parse returns, as values.
Messages(st) == [k \in 1..Len(st.messages) |-> st.heap[st.messages[k]]]

\* The clock at the time of a parse.
NowValues == {DateTime(20261102, 2, 26, 4, 509237)}

Unknown == <<"Unknown">>

\* run.py writes messages in export syntax:
\* ts.strftime("%d/%m/%Y, %H:%M") - sender: first line, then the other lines.
RECURSIVE FormatExport(_)
FormatExport(msgs) ==
    IF msgs = <<>> THEN <<>>
    ELSE LET m == Head(msgs)
             header == HeaderLine("plain", "/", m.timestamp.date % 100,
                                  (m.timestamp.date \div 100) % 100,
                                  m.timestamp.hour,
                                  IF m.sender = <<>> THEN Unknown ELSE m.sender,
                                  m.content[1].text)
         IN  <<header>> \o Tail(m.content) \o FormatExport(Tail(msgs))

SegIdle ==
    /\ lines = <<>>
    /\ seg_impl = "none"
    /\ seg = EmptyParse
    /\ reseg = EmptyParse
    /\ seg_pc = "idle"

SegInit ==
    /\ lines = <<>>
    /\ seg_impl = "none"
    /\ seg = EmptyParse
    /\ reseg = EmptyParse
    /\ seg_pc = "input"

\* One more line in the export.
AppendLine ==
    /\ seg_pc = "input"
    /\ Len(lines) < MaxLines
    /\ \E line \in ExportLines : lines' = Append(lines, line)
    /\ UNCHANGED <<seg_impl, seg, reseg, seg_pc>>
    /\ UNCHANGED notSegVars

\* messages = parse_export_text(content)
ParseExportText ==
    /\ seg_pc = "input"
    /\ seg' = parse_export_text(lines)
    /\ seg_impl' = "parser"
    /\ seg_pc' = "parsed"
    /\ UNCHANGED <<lines, reseg>>
    /\ UNCHANGED notSegVars

\* messages = WhatsAppChatParser().parse_content(content)
ParseContent ==
    /\ seg_pc = "input"
    /\ \E now \in NowValues : seg' = parse_content(lines, now)
    /\ seg_impl' = "regex"
    /\ seg_pc' = "parsed"
    /\ UNCHANGED <<lines, reseg>>
    /\ UNCHANGED notSegVars

\* The messages written back in export syntax and parsed again by the same
\* parser.
Reparse ==
    /\ seg_pc = "parsed"
    /\ \/ /\ seg_impl = "parser"
          /\ reseg' = parse_export_text(FormatExport(Messages(seg)))
       \/ /\ seg_impl = "regex"
          /\ \E now \in NowValues :
                reseg' = parse_content(FormatExport(Messages(seg)), now)
    /\ seg_pc' = "reparsed"
    /\ UNCHANGED <<lines, seg_impl, seg>>
    /\ UNCHANGED notSegVars

SegNext == AppendLine \/ ParseExportText \/ ParseContent \/ Reparse

(***************************************************************************)
(* Regular expressions: Python's re, as the extractors use it              *)
(* (regex_analyzer.py).  A pattern is a term; Match tries the ways the     *)
(* term matches at a position in the order in which a backtracking         *)
(* matcher tries them, so that what it finds is the match re reports.      *)
(***************************************************************************)

\* The characters of the model's texts.  "endash", "clock", "pin" and "euro"
\* are the one-character strings of the en dash, a clock-face emoji, the pin
\* emoji and the euro sign.
Digit == {"0", "1", "2", "3", "4", "5", "6", "7", "8", "9"}
Space == {" ", "\n"}
Letter ==
    {LowerLetters[k] : k \in 1..Len(LowerLetters)}
        \cup {UpperLetters[k] : k \in 1..Len(UpperLetters)} \cup {"sz"}
WordChar == Letter \cup Digit
Alphabet ==
    WordChar \cup Space
        \cup {".", ":", "-", "+", "/", ",", "|", "<", ">", "(", ")", "*", "_", "@",
              "endash", "clock", "pin", "euro",
              "soccer", "vs16", "trophy", "victory",
              "alarm", "people", "money", "phone", "cross"}

\* The terms.
Chars(set) == [op |-> "chars", set |-> set]
Text(str) == [op |-> "text", str |-> str, nocase |-> FALSE]
NoCase(str) == [op |-> "text", str |-> Lower(str), nocase |-> TRUE]
Cat(args) == [op |-> "cat", args |-> args]
Alt(args) == [op |-> "alt", args |-> args]
Group(n, arg) == [op |-> "group", n |-> n, arg |-> arg]
Rep(arg, lo, hi) ==
    [op |-> "rep", arg |-> arg, lo |-> lo, hi |-> hi, bounded |-> TRUE, greedy |-> TRUE]
Opt(arg) == Rep(arg, 0, 1)
Star(arg) ==
    [op |-> "rep", arg |-> arg, lo |-> 0, hi |-> 0, bounded |-> FALSE, greedy |-> TRUE]
Plus(arg) ==
    [op |-> "rep", arg |-> arg, lo |-> 1, hi |-> 0, bounded |-> FALSE, greedy |-> TRUE]
LazyStar(arg) ==
    [op |-> "rep", arg |-> arg, lo |-> 0, hi |-> 0, bounded |-> FALSE, greedy |-> FALSE]
LazyPlus(arg) ==
    [op |-> "rep", arg |-> arg, lo |-> 1, hi |-> 0, bounded |-> FALSE, greedy |-> FALSE]
WordBoundary == [op |-> "boundary"]
TextEnd == [op |-> "end", multiline |-> FALSE]
LineEnd == [op |-> "end", multiline |-> TRUE]
TextStart == [op |-> "begin", multiline |-> FALSE]
LineStart == [op |-> "begin", multiline |-> TRUE]
NotAhead(arg) == [op |-> "notahead", arg |-> arg]

\* A match in progress: the position of the next character and, for each
\* group, where it started and ended (<<0, 0>>: the group took no part).
NoGroups == <<<<0, 0>>, <<0, 0>>, <<0, 0>>, <<0, 0>>>>
MatchStart(i) == [pos |-> i, groups |-> NoGroups]

\* What a match attempt comes to: ok = FALSE when every way was tried in vain.
Matched(st) == [ok |-> TRUE, pos |-> st.pos, groups |-> st.groups]
Failed == [ok |-> FALSE, pos |-> 0, groups |-> NoGroups]

\* Bookkeeping terms of the matcher: the end of group n that started at
\* `start`, and the repetition `re` about to decide on one more round after
\* n rounds, the last of which started at `from`.
EndGroup(n, start) == [op |-> "endgroup", n |-> n, start |-> start]
Round(re, n, from) == [op |-> "round", re |-> re, n |-> n, from |-> from]

\* The characters of a text, in lower case.
Folded == [c \in Alphabet |-> LowerChar(c)]

\* Whether str is at position pos of the text, character by character; with
\* re.IGNORECASE both are compared in lower case (str is in lower case).
IsTextAt(text, pos, str, nocase) ==
    /\ pos + Len(str) - 1 <= Len(text)
    /\ \A i \in 1..Len(str) :
           (IF nocase THEN Folded[text[pos + i - 1]] ELSE text[pos + i - 1])
               = str[i]

IsWordAt(text, i) == i >= 1 /\ i <= Len(text) /\ text[i] \in WordChar

\* The number of characters from position pos on that are in the set.
RunLength(text, pos, set) ==
    LET stops == {j \in pos..Len(text) : text[j] \notin set}
    IN  IF stops = {} THEN Len(text) + 1 - pos
        ELSE (CHOOSE j \in stops : \A k \in stops : j <= k) - pos

\* Match(todo, text, st) matches the terms of todo one after the other from
\* st on, as a backtracking matcher does: the alternatives of a term are
\* tried in the order of re (the branches of | left to right, a greedy
\* repetition the longest first, a lazy one the shortest first), and the
\* first one after which the rest of todo matches is taken.
RECURSIVE Match(_, _, _)
RECURSIVE TryBranches(_, _, _, _, _, _)
RECURSIVE TryLengths(_, _, _, _, _, _, _)

\* The branches lo..hi of an alternation, in order.
TryBranches(args, rest, text, st, lo, hi) ==
    IF lo = hi THEN Match(<<args[lo]>> \o rest, text, st)
    ELSE LET mid == (lo + hi) \div 2
             left == TryBranches(args, rest, text, st, lo, mid)
         IN  IF left.ok THEN left
             ELSE TryBranches(args, rest, text, st, mid + 1, hi)

\* A repetition of a character class taking first, first + step, ...
\* characters: the tries lo..hi, in order.
TryLengths(rest, text, st, first, step, lo, hi) ==
    IF lo = hi
    THEN Match(rest, text, [st EXCEPT !.pos = @ + first + step * (lo - 1)])
    ELSE LET mid == (lo + hi) \div 2
             left == TryLengths(rest, text, st, first, step, lo, mid)
         IN  IF left.ok THEN left
             ELSE TryLengths(rest, text, st, first, step, mid + 1, hi)

Match(todo, text, st) ==
    IF todo = <<>> THEN Matched(st)
    ELSE LET re == Head(todo)
             rest == Tail(todo)
    IN  CASE re.op = "chars" ->
            IF st.pos <= Len(text) /\ text[st.pos] \in re.set
            THEN Match(rest, text, [st EXCEPT !.pos = @ + 1]) ELSE Failed
      [] re.op = "text" ->
            IF IsTextAt(text, st.pos, re.str, re.nocase)
            THEN Match(rest, text, [st EXCEPT !.pos = @ + Len(re.str)])
            ELSE Failed
      [] re.op = "cat" -> Match(re.args \o rest, text, st)
      [] re.op = "alt" -> TryBranches(re.args, rest, text, st, 1, Len(re.args))
      [] re.op = "group" ->
            Match(<<re.arg, EndGroup(re.n, st.pos)>> \o rest, text, st)
      [] re.op = "endgroup" ->
            Match(rest, text, [st EXCEPT !.groups[re.n] = <<re.start, st.pos>>])
      [] re.op = "rep" /\ re.arg.op = "chars" ->
            LET run == RunLength(text, st.pos, re.arg.set)
                most == IF re.bounded THEN Min(re.hi, run) ELSE run
            IN  IF most < re.lo THEN Failed
                ELSE IF re.greedy
                THEN TryLengths(rest, text, st, most, -1, 1, most - re.lo + 1)
                ELSE TryLengths(rest, text, st, re.lo, 1, 1, most - re.lo + 1)
      [] re.op = "rep" /\ re.arg.op # "chars" ->
            Match(<<Round(re, 0, 0)>> \o rest, text, st)
      [] re.op = "round" ->
            LET more == IF (re.re.bounded /\ re.n >= re.re.hi) \/ st.pos = re.from
                        THEN Failed
                        ELSE Match(<<re.re.arg, Round(re.re, re.n + 1, st.pos)>> \o rest,
                                   text, st)
                stop == IF re.n >= re.re.lo THEN Match(rest, text, st) ELSE Failed
            IN  IF re.re.greedy THEN (IF more.ok THEN more ELSE stop)
                ELSE (IF stop.ok THEN stop ELSE more)
      [] re.op = "boundary" ->
            IF IsWordAt(text, st.pos - 1) # IsWordAt(text, st.pos)
            THEN Match(rest, text, st) ELSE Failed
      [] re.op = "end" ->
            IF \/ st.pos = Len(text) + 1
               \/ st.pos = Len(text) /\ text[st.pos] = "\n"
               \/ re.multiline /\ st.pos <= Len(text) /\ text[st.pos] = "\n"
            THEN Match(rest, text, st) ELSE Failed
      [] re.op = "begin" ->
            IF st.pos = 1 \/ (re.multiline /\ text[st.pos - 1] = "\n")
            THEN Match(rest, text, st) ELSE Failed
      [] re.op = "notahead" ->
            IF Match(<<re.arg>>, text, st).ok THEN Failed
            ELSE Match(rest, text, st)

\* pattern.search(text): the leftmost match; group 0 is the whole match.
NoMatch == [found |-> FALSE, start |-> 0, end |-> 0, groups |-> NoGroups]

\* The match at the first of the positions lo..hi that has one.
RECURSIVE SearchFrom(_, _, _, _)
SearchFrom(re, text, lo, hi) ==
    IF lo = hi
    THEN LET m == Match(<<re>>, text, MatchStart(lo))
         IN  IF m.ok THEN [found |-> TRUE, start |-> lo, end |-> m.pos,
                           groups |-> m.groups]
             ELSE NoMatch
    ELSE LET mid == (lo + hi) \div 2
             left == SearchFrom(re, text, lo, mid)
         IN  IF left.found THEN left ELSE SearchFrom(re, text, mid + 1, hi)

search(re, text) == SearchFrom(re, text, 1, Len(text) + 1)

\* match.group(n): the text of group n, NoneStr when it took no part.
group(m, text, n) ==
    IF n = 0 THEN SubSeq(text, m.start, m.end - 1)
    ELSE IF m.groups[n] = <<0, 0>> THEN NoneStr
    ELSE SubSeq(text, m.groups[n][1], m.groups[n][2] - 1)

(***************************************************************************)
(* The time extractors: FootballEventExtractor._extract_time               *)
(* (regex_analyzer.py) and extract_time (src/extractor.py)                 *)
(***************************************************************************)

\* GermanFootballPatterns.TIMES, by index.
\* r'\b(0?[0-9]|1[0-9]|2[0-3])[:\.]([0-5]\d)\s*[-{endash}bis]+\s*(0?[0-9]|1[0-
\*     9]|2[0-3])[:\.]([0-5]\d)'
TIMES_0 ==
    Cat(<<WordBoundary, Group(1, Alt(<<Cat(<<Opt(Text(<<"0">>)),
        Chars(Digit)>>), Cat(<<Text(<<"1">>), Chars(Digit)>>),
        Cat(<<Text(<<"2">>), Chars({"0", "1", "2", "3"})>>)>>)), Chars({".",
        ":"}), Group(2, Cat(<<Chars({"0", "1", "2", "3", "4", "5"}),
        Chars(Digit)>>)), Star(Chars(Space)), Plus(Chars({"b", "i", "s", "B",
        "I", "S", "-", "endash"})), Star(Chars(Space)), Group(3,
        Alt(<<Cat(<<Opt(Text(<<"0">>)), Chars(Digit)>>), Cat(<<Text(<<"1">>),
        Chars(Digit)>>), Cat(<<Text(<<"2">>), Chars({"0", "1", "2",
        "3"})>>)>>)), Chars({".", ":"}), Group(4, Cat(<<Chars({"0", "1", "2",
        "3", "4", "5"}), Chars(Digit)>>))>>)

\* r'(?:Turnier)?[Bb]eginn[:\s]*(\d{1,2})[:\.]?(\d{2})?\s*(?:Uhr)?'
TIMES_1 ==
    Cat(<<Opt(NoCase(<<"T", "u", "r", "n", "i", "e", "r">>)), Chars({"b",
        "B"}), NoCase(<<"e", "g", "i", "n", "n">>),
        Star(Chars(Space \cup {":"})), Group(1, Rep(Chars(Digit), 1, 2)),
        Opt(Chars({".", ":"})), Opt(Group(2, Rep(Chars(Digit), 2, 2))),
        Star(Chars(Space)), Opt(NoCase(<<"U", "h", "r">>))>>)

\* r'Ende[:\s]*(\d{1,2})[:\.]?(\d{2})?\s*(?:Uhr)?'
TIMES_2 ==
    Cat(<<NoCase(<<"E", "n", "d", "e">>), Star(Chars(Space \cup {":"})),
        Group(1, Rep(Chars(Digit), 1, 2)), Opt(Chars({".", ":"})),
        Opt(Group(2, Rep(Chars(Digit), 2, 2))), Star(Chars(Space)),
        Opt(NoCase(<<"U", "h", "r">>))>>)

\* r'[<the twelve clock-face emoji>]\s*(?:\w+[:\s]+)?(\d{1,2})[:\.]?(\d{2})?\s*(?:Uhr)?'
TIMES_3 ==
    Cat(<<Chars({"clock"}), Star(Chars(Space)),
        Opt(Cat(<<Plus(Chars(WordChar)), Plus(Chars(Space \cup {":"}))>>)),
        Group(1, Rep(Chars(Digit), 1, 2)), Opt(Chars({".", ":"})),
        Opt(Group(2, Rep(Chars(Digit), 2, 2))), Star(Chars(Space)),
        Opt(NoCase(<<"U", "h", "r">>))>>)

\* r'\bab\s+(\d{1,2})[:\.]?(\d{2})?\s*(?:Uhr)?'
TIMES_4 ==
    Cat(<<WordBoundary, NoCase(<<"a", "b">>), Plus(Chars(Space)), Group(1,
        Rep(Chars(Digit), 1, 2)), Opt(Chars({".", ":"})), Opt(Group(2,
        Rep(Chars(Digit), 2, 2))), Star(Chars(Space)), Opt(NoCase(<<"U", "h",
        "r">>))>>)

\* r'\b(\d{1,2})[:\.](\d{2})\s*Uhr\b'
TIMES_5 ==
    Cat(<<WordBoundary, Group(1, Rep(Chars(Digit), 1, 2)), Chars({".", ":"}),
        Group(2, Rep(Chars(Digit), 2, 2)), Star(Chars(Space)), NoCase(<<"U",
        "h", "r">>), WordBoundary>>)

\* r'\b(\d{1,2})\s*Uhr\b'
TIMES_6 ==
    Cat(<<WordBoundary, Group(1, Rep(Chars(Digit), 1, 2)),
        Star(Chars(Space)), NoCase(<<"U", "h", "r">>), WordBoundary>>)


\* f"{hour}:{minute}", minute being "00" when its group took no part.
HourMinute(m, text) ==
    group(m, text, 1) \o <<":">>
        \o (IF group(m, text, 2) # NoneStr THEN group(m, text, 2) ELSE <<"0", "0">>)

\* What _extract_time returns: (start, end, confidence); "" is <<>>.
TimeResult(start, end, conf) == [start |-> start, end |-> end, conf |-> conf]

\* The single times with "Uhr": for pattern in TIMES[5:].
SingleTime(text) ==
    LET m5 == search(TIMES_5, text)
        m6 == search(TIMES_6, text)
    IN  IF m5.found THEN TimeResult(HourMinute(m5, text), <<>>, 60)
        ELSE IF m6.found
        THEN TimeResult(group(m6, text, 1) \o <<":", "0", "0">>, <<>>, 60)
        ELSE TimeResult(<<>>, <<>>, 0)

\* The range pattern and its validation of the two hours.
RangeTime(text) ==
    LET m == search(TIMES_0, text)
        h1_int == ParseInt(group(m, text, 1))
        h2_int == ParseInt(group(m, text, 3))
    IN  IF m.found /\ 0 <= h1_int /\ h1_int <= 23 /\ 0 <= h2_int /\ h2_int <= 23
        THEN [ok |-> TRUE,
              value |-> TimeResult(group(m, text, 1) \o <<":">> \o group(m, text, 2),
                                   group(m, text, 3) \o <<":">> \o group(m, text, 4),
                                   100)]
        ELSE [ok |-> FALSE, value |-> TimeResult(<<>>, <<>>, 0)]

\* _extract_time with the "ab" pattern tried before the clock emoji.
\* _extract_time returning as soon as the labeled start or the labeled end
\* matched.
MutEnd_extract_time(text) ==
    LET range == RangeTime(text)
        m1 == search(TIMES_1, text)
        m2 == search(TIMES_2, text)
        m3 == search(TIMES_3, text)
        m4 == search(TIMES_4, text)
        start_time == IF m1.found THEN HourMinute(m1, text) ELSE <<>>
        end_time == IF m2.found THEN HourMinute(m2, text) ELSE <<>>
    IN  IF range.ok THEN range.value
        ELSE IF start_time # <<>> \/ end_time # <<>>
        THEN TimeResult(start_time, end_time, IF end_time # <<>> THEN 90 ELSE 80)
        ELSE IF m3.found THEN TimeResult(HourMinute(m3, text), <<>>, 70)
        ELSE IF m4.found THEN TimeResult(HourMinute(m4, text), <<>>, 70)
        ELSE SingleTime(text)

Mut_extract_time(text) ==
    LET range == RangeTime(text)
        m1 == search(TIMES_1, text)
        m2 == search(TIMES_2, text)
        m3 == search(TIMES_3, text)
        m4 == search(TIMES_4, text)
        start_time == IF m1.found THEN HourMinute(m1, text) ELSE <<>>
        end_time == IF m2.found THEN HourMinute(m2, text) ELSE <<>>
    IN  IF range.ok THEN range.value
        ELSE IF start_time # <<>>
        THEN TimeResult(start_time, end_time, IF end_time # <<>> THEN 90 ELSE 80)
        ELSE IF m4.found THEN TimeResult(HourMinute(m4, text), <<>>, 70)
        ELSE IF m3.found THEN TimeResult(HourMinute(m3, text), <<>>, 70)
        ELSE SingleTime(text)

_extract_time(text) ==
    LET range == RangeTime(text)
        m1 == search(TIMES_1, text)
        m2 == search(TIMES_2, text)
        m3 == search(TIMES_3, text)
        m4 == search(TIMES_4, text)
        start_time == IF m1.found THEN HourMinute(m1, text) ELSE <<>>
        end_time == IF m2.found THEN HourMinute(m2, text) ELSE <<>>
    IN  IF range.ok THEN range.value
        ELSE IF start_time # <<>>
        THEN TimeResult(start_time, end_time, IF end_time # <<>> THEN 90 ELSE 80)
        ELSE IF m3.found THEN TimeResult(HourMinute(m3, text), <<>>, 70)
        ELSE IF m4.found THEN TimeResult(HourMinute(m4, text), <<>>, 70)
        ELSE SingleTime(text)

\* src/extractor.py
\* r'(?:von\s+)?(\d{1,2})(?:[:\.](\d{2}))?\s*[-{endash}bis]+\s*(\d{1,2})(?:[:\
\*     .](\d{2}))?\s*uhr'
TIME_RANGE_PATTERN ==
    Cat(<<Opt(Cat(<<NoCase(<<"v", "o", "n">>), Plus(Chars(Space))>>)),
        Group(1, Rep(Chars(Digit), 1, 2)), Opt(Cat(<<Chars({".", ":"}),
        Group(2, Rep(Chars(Digit), 2, 2))>>)), Star(Chars(Space)),
        Plus(Chars({"b", "i", "s", "B", "I", "S", "-", "endash"})),
        Star(Chars(Space)), Group(3, Rep(Chars(Digit), 1, 2)),
        Opt(Cat(<<Chars({".", ":"}), Group(4, Rep(Chars(Digit), 2, 2))>>)),
        Star(Chars(Space)), NoCase(<<"u", "h", "r">>)>>)

\* r'(?:ab\s+|beginn[:\s]*|start[:\s]*|von\s+)?(\d{1,2})[:\.](\d{2})\s*uhr(?:\
\*     s*[-{endash}bis]+\s*(\d{1,2})[:\.](\d{2})\s*(?:uhr)?)?'
TIME_PATTERN ==
    Cat(<<Opt(Alt(<<Cat(<<NoCase(<<"a", "b">>), Plus(Chars(Space))>>),
        Cat(<<NoCase(<<"b", "e", "g", "i", "n", "n">>),
        Star(Chars(Space \cup {":"}))>>), Cat(<<NoCase(<<"s", "t", "a", "r",
        "t">>), Star(Chars(Space \cup {":"}))>>), Cat(<<NoCase(<<"v", "o",
        "n">>), Plus(Chars(Space))>>)>>)), Group(1, Rep(Chars(Digit), 1, 2)),
        Chars({".", ":"}), Group(2, Rep(Chars(Digit), 2, 2)),
        Star(Chars(Space)), NoCase(<<"u", "h", "r">>),
        Opt(Cat(<<Star(Chars(Space)), Plus(Chars({"b", "i", "s", "B", "I",
        "S", "-", "endash"})), Star(Chars(Space)), Group(3, Rep(Chars(Digit),
        1, 2)), Chars({".", ":"}), Group(4, Rep(Chars(Digit), 2, 2)),
        Star(Chars(Space)), Opt(NoCase(<<"u", "h", "r">>))>>))>>)

\* f"{int(h):02d}:{m}", m being "00" when its group took no part.
PaddedTime(h, m) ==
    ZeroPadded(ParseInt(h), 2) \o <<":">> \o (IF m # NoneStr THEN m ELSE <<"0", "0">>)

\* extract_time returns (start, end); None is NoneStr.
extract_time(text) ==
    LET r == search(TIME_RANGE_PATTERN, text)
        m == search(TIME_PATTERN, text)
    IN  IF r.found /\ ParseInt(group(r, text, 1)) <= 23
                   /\ ParseInt(group(r, text, 3)) <= 23
        THEN [start |-> PaddedTime(group(r, text, 1), group(r, text, 2)),
              end |-> PaddedTime(group(r, text, 3), group(r, text, 4))]
        ELSE IF ~m.found THEN [start |-> NoneStr, end |-> NoneStr]
        ELSE IF ParseInt(group(m, text, 1)) > 23
        THEN [start |-> NoneStr, end |-> NoneStr]
        ELSE [start |-> PaddedTime(group(m, text, 1), group(m, text, 2)),
              end |-> IF group(m, text, 3) # NoneStr /\ group(m, text, 4) # NoneStr
                         /\ ParseInt(group(m, text, 3)) <= 23
                      THEN PaddedTime(group(m, text, 3), group(m, text, 4))
                      ELSE NoneStr]

(***************************************************************************)
(* The date extractor: FootballEventExtractor._extract_date                *)
(* (regex_analyzer.py)                                                     *)
(***************************************************************************)

\* r'(\d{1,2})\.(\d{1,2})\.(\d{2,4})'
DATES_0 ==
    Cat(<<Group(1, Rep(Chars(Digit), 1, 2)), Text(<<".">>), Group(2,
        Rep(Chars(Digit), 1, 2)), Text(<<".">>), Group(3, Rep(Chars(Digit),
        2, 4))>>)

\* r'(\d{1,2})/(\d{1,2})/(\d{2,4})'
DATES_1 ==
    Cat(<<Group(1, Rep(Chars(Digit), 1, 2)), Text(<<"/">>), Group(2,
        Rep(Chars(Digit), 1, 2)), Text(<<"/">>), Group(3, Rep(Chars(Digit),
        2, 4))>>)

\* r'(?:am|den|vom|zum|bis)\s+(\d{1,2})\.(\d{1,2})\.?(?:(\d{2,4}))?'
DATES_2 ==
    Cat(<<Alt(<<NoCase(<<"a", "m">>), NoCase(<<"d", "e", "n">>),
        NoCase(<<"v", "o", "m">>), NoCase(<<"z", "u", "m">>), NoCase(<<"b",
        "i", "s">>)>>), Plus(Chars(Space)), Group(1, Rep(Chars(Digit), 1,
        2)), Text(<<".">>), Group(2, Rep(Chars(Digit), 1, 2)),
        Opt(Text(<<".">>)), Opt(Group(3, Rep(Chars(Digit), 2, 4)))>>)

\* r'(\d{1,2})\.\s*(Januar|Februar|M{ae}rz|April|Mai|Juni|Juli|August|Septembe
\*     r|Oktober|November|Dezember|Jan|Feb|M{ae}r|Apr|Jun|Jul|Aug|Sep|Okt|Nov|
\*     Dez)\.?\s*(\d{2,4})?'
DATES_3 ==
    Cat(<<Group(1, Rep(Chars(Digit), 1, 2)), Text(<<".">>),
        Star(Chars(Space)), Group(2, Alt(<<NoCase(<<"J", "a", "n", "u", "a",
        "r">>), NoCase(<<"F", "e", "b", "r", "u", "a", "r">>), NoCase(<<"M",
        "ae", "r", "z">>), NoCase(<<"A", "p", "r", "i", "l">>), NoCase(<<"M",
        "a", "i">>), NoCase(<<"J", "u", "n", "i">>), NoCase(<<"J", "u", "l",
        "i">>), NoCase(<<"A", "u", "g", "u", "s", "t">>), NoCase(<<"S", "e",
        "p", "t", "e", "m", "b", "e", "r">>), NoCase(<<"O", "k", "t", "o",
        "b", "e", "r">>), NoCase(<<"N", "o", "v", "e", "m", "b", "e", "r">>),
        NoCase(<<"D", "e", "z", "e", "m", "b", "e", "r">>), NoCase(<<"J",
        "a", "n">>), NoCase(<<"F", "e", "b">>), NoCase(<<"M", "ae", "r">>),
        NoCase(<<"A", "p", "r">>), NoCase(<<"J", "u", "n">>), NoCase(<<"J",
        "u", "l">>), NoCase(<<"A", "u", "g">>), NoCase(<<"S", "e", "p">>),
        NoCase(<<"O", "k", "t">>), NoCase(<<"N", "o", "v">>), NoCase(<<"D",
        "e", "z">>)>>)), Opt(Text(<<".">>)), Star(Chars(Space)), Opt(Group(3,
        Rep(Chars(Digit), 2, 4)))>>)

\* r'(diesen?|n{ae}chsten?|kommenden?)\s+(Montag|Dienstag|Mittwoch|Donnerstag|
\*     Freitag|Samstag|Sonntag)'
DATES_4 ==
    Cat(<<Group(1, Alt(<<Cat(<<NoCase(<<"d", "i", "e", "s", "e">>),
        Opt(NoCase(<<"n">>))>>), Cat(<<NoCase(<<"n", "ae", "c", "h", "s",
        "t", "e">>), Opt(NoCase(<<"n">>))>>), Cat(<<NoCase(<<"k", "o", "m",
        "m", "e", "n", "d", "e">>), Opt(NoCase(<<"n">>))>>)>>)),
        Plus(Chars(Space)), Group(2, Alt(<<NoCase(<<"M", "o", "n", "t", "a",
        "g">>), NoCase(<<"D", "i", "e", "n", "s", "t", "a", "g">>),
        NoCase(<<"M", "i", "t", "t", "w", "o", "c", "h">>), NoCase(<<"D",
        "o", "n", "n", "e", "r", "s", "t", "a", "g">>), NoCase(<<"F", "r",
        "e", "i", "t", "a", "g">>), NoCase(<<"S", "a", "m", "s", "t", "a",
        "g">>), NoCase(<<"S", "o", "n", "n", "t", "a", "g">>)>>))>>)

\* Month name mapping.
MONTHS ==
    <<<< <<"j", "a", "n", "u", "a", "r">>, 1>>, << <<"j", "a", "n">>, 1>>,
      << <<"f", "e", "b", "r", "u", "a", "r">>, 2>>, << <<"f", "e", "b">>, 2>>,
      << <<"m", "ae", "r", "z">>, 3>>, << <<"m", "ae", "r">>, 3>>,
      << <<"a", "p", "r", "i", "l">>, 4>>, << <<"a", "p", "r">>, 4>>,
      << <<"m", "a", "i">>, 5>>,
      << <<"j", "u", "n", "i">>, 6>>, << <<"j", "u", "n">>, 6>>,
      << <<"j", "u", "l", "i">>, 7>>, << <<"j", "u", "l">>, 7>>,
      << <<"a", "u", "g", "u", "s", "t">>, 8>>, << <<"a", "u", "g">>, 8>>,
      << <<"s", "e", "p", "t", "e", "m", "b", "e", "r">>, 9>>,
      << <<"s", "e", "p">>, 9>>,
      << <<"o", "k", "t", "o", "b", "e", "r">>, 10>>, << <<"o", "k", "t">>, 10>>,
      << <<"n", "o", "v", "e", "m", "b", "e", "r">>, 11>>, << <<"n", "o", "v">>, 11>>,
      << <<"d", "e", "z", "e", "m", "b", "e", "r">>, 12>>, << <<"d", "e", "z">>, 12>> >>

\* Weekday mapping.
WEEKDAYS ==
    <<<< <<"m", "o", "n", "t", "a", "g">>, 0>>,
      << <<"d", "i", "e", "n", "s", "t", "a", "g">>, 1>>,
      << <<"m", "i", "t", "t", "w", "o", "c", "h">>, 2>>,
      << <<"d", "o", "n", "n", "e", "r", "s", "t", "a", "g">>, 3>>,
      << <<"f", "r", "e", "i", "t", "a", "g">>, 4>>,
      << <<"s", "a", "m", "s", "t", "a", "g">>, 5>>,
      << <<"s", "o", "n", "n", "t", "a", "g">>, 6>> >>

\* mapping.get(key, default)
Get(mapping, key, default) ==
    IF \E k \in 1..Len(mapping) : mapping[k][1] = key
    THEN mapping[CHOOSE k \in 1..Len(mapping) : mapping[k][1] = key][2]
    ELSE default

\* str.isdigit()
isdigit(str) == str # <<>> /\ \A k \in 1..Len(str) : str[k] \in Digit

\* The calendar of datetime.date; a date is the integer YYYYMMDD.
YearOf(d) == d \div 10000
MonthOf(d) == (d \div 100) % 100
DayOf(d) == d % 100
IsLeap(year) == year % 4 = 0 /\ (year % 100 # 0 \/ year % 400 = 0)
DaysIn(year, month) == IF month = 2 /\ IsLeap(year) THEN 29 ELSE DaysInMonth[month]

\* date(year, month, day); ok = FALSE is the ValueError.
MakeDate(year, month, day) ==
    [ok |-> year \in 1..9999 /\ month \in 1..12 /\ day \in 1..DaysIn(year, month),
     value |-> year * 10000 + month * 100 + day]

RECURSIVE DaysBeforeMonth(_, _)
DaysBeforeMonth(year, month) ==
    IF month = 1 THEN 0
    ELSE DaysBeforeMonth(year, month - 1) + DaysIn(year, month - 1)

\* date.toordinal(): day 1 is 0001-01-01, a Monday.
ToOrdinal(d) ==
    LET y == YearOf(d) - 1
    IN  y * 365 + (y \div 4) - (y \div 100) + (y \div 400)
            + DaysBeforeMonth(YearOf(d), MonthOf(d)) + DayOf(d)

\* date.weekday(): Monday is 0.
weekday(d) == (ToOrdinal(d) + 6) % 7

NextDay(d) ==
    IF DayOf(d) < DaysIn(YearOf(d), MonthOf(d)) THEN d + 1
    ELSE IF MonthOf(d) < 12 THEN YearOf(d) * 10000 + (MonthOf(d) + 1) * 100 + 1
    ELSE (YearOf(d) + 1) * 10000 + 101

\* d + timedelta(days=n), n >= 0
RECURSIVE AddDays(_, _)
AddDays(d, n) == IF n = 0 THEN d ELSE AddDays(NextDay(d), n - 1)

\* What _extract_date returns: (date, matched text, confidence); the date
\* None is NoneInt, "" is <<>>.
DateResult(d, matched, conf) == [date |-> d, matched |-> matched, conf |-> conf]

\* The `continue` of the loop over DATES[:4], and `return None, "", 0.0`.
NoDate == [ok |-> FALSE, value |-> DateResult(NoneInt, <<>>, 0)]

\* The month of a match: a number, or a name looked up in MONTHS (0 when it
\* is not there).
MonthOfGroup(month) ==
    IF isdigit(month) THEN ParseInt(month) ELSE Get(MONTHS, Lower(month), 0)

\* The year of a match: the one given, two digits being of this century, or
\* the year of the message, the next one when the month is before the
\* message's.
YearOfGroup(year, month, msg_date) ==
    IF year # NoneStr
    THEN (IF ParseInt(year) < 100 THEN ParseInt(year) + 2000 ELSE ParseInt(year))
    ELSE IF month < MonthOf(msg_date) THEN YearOf(msg_date) + 1
    ELSE YearOf(msg_date)

\* extracted_date = date(year, month, day); return extracted_date,
\* match.group(), 1.0 -- unless the month is 0 or date() raises.
DateOfGroups(matched, extracted_date, month) ==
    IF month # 0 /\ extracted_date.ok
    THEN [ok |-> TRUE, value |-> DateResult(extracted_date.value, matched, 100)]
    ELSE NoDate

DateOfNumbers(matched, day, month, year, msg_date) ==
    DateOfGroups(matched, MakeDate(YearOfGroup(year, month, msg_date), month, day),
                 month)

DateOfMatch(match, text, msg_date) ==
    IF ~match.found THEN NoDate
    ELSE DateOfNumbers(group(match, text, 0), ParseInt(group(match, text, 1)),
                       MonthOfGroup(group(match, text, 2)), group(match, text, 3),
                       msg_date)

\* The body of the loop over DATES[:4] for one pattern: ok = FALSE when the
\* pattern does not match or the loop `continue`s (month 0, ValueError).
ExplicitDate(pattern, text, msg_date) ==
    DateOfMatch(search(pattern, text), text, msg_date.date)

\* days_ahead after the modifier had its say: "naechst" and "kommend" push
\* an offset <= 0 by a week, "diesen" pushes an offset < 0.
MutDaysAhead(modifier, days_ahead) ==
    IF days_ahead < 0 THEN days_ahead + 7 ELSE days_ahead
DaysAhead(modifier, days_ahead) ==
    IF Contains(<<"n", "ae", "c", "h", "s", "t">>, modifier)
       \/ Contains(<<"k", "o", "m", "m", "e", "n", "d">>, modifier)
    THEN (IF days_ahead <= 0 THEN days_ahead + 7 ELSE days_ahead)
    ELSE (IF days_ahead < 0 THEN days_ahead + 7 ELSE days_ahead)

RelativeOfGroups(matched, modifier, weekday_num, msg_date) ==
    IF weekday_num = NoneInt THEN DateResult(NoneInt, <<>>, 0)
    ELSE DateResult(AddDays(msg_date,
                            DaysAhead(Lower(modifier), weekday_num - weekday(msg_date))),
                    matched, 70)

RelativeOfMatch(match, text, msg_date) ==
    IF ~match.found THEN DateResult(NoneInt, <<>>, 0)
    ELSE RelativeOfGroups(group(match, text, 0), group(match, text, 1),
                          Get(WEEKDAYS, Lower(group(match, text, 2)), NoneInt),
                          msg_date)

\* The relative dates (diesen Samstag, naechsten Sonntag).
RelativeDate(text, msg_date) ==
    RelativeOfMatch(search(DATES_4, text), text, msg_date.date)

_extract_date(text, msg_date) ==
    LET d0 == ExplicitDate(DATES_0, text, msg_date)
        d1 == ExplicitDate(DATES_1, text, msg_date)
        d2 == ExplicitDate(DATES_2, text, msg_date)
        d3 == ExplicitDate(DATES_3, text, msg_date)
    IN  IF d0.ok THEN d0.value
        ELSE IF d1.ok THEN d1.value
        ELSE IF d2.ok THEN d2.value
        ELSE IF d3.ok THEN d3.value
        ELSE RelativeDate(text, msg_date)

(***************************************************************************)
(* The play-format extractor: FootballEventExtractor._extract_play_format  *)
(* (regex_analyzer.py)                                                     *)
(***************************************************************************)

\* r'(\d)\s*\+\s*(\d)'
PLAY_FORMATS_0 ==
    Cat(<<Group(1, Chars(Digit)), Star(Chars(Space)), Text(<<"+">>),
        Star(Chars(Space)), Group(2, Chars(Digit))>>)

\* r'(?:Spielmodus|Format)[:\s]*(\d)\s*(?:gegen|vs?\.?|:)\s*(\d)'
PLAY_FORMATS_1 ==
    Cat(<<Alt(<<NoCase(<<"S", "p", "i", "e", "l", "m", "o", "d", "u", "s">>),
        NoCase(<<"F", "o", "r", "m", "a", "t">>)>>),
        Star(Chars(Space \cup {":"})), Group(1, Chars(Digit)),
        Star(Chars(Space)), Alt(<<NoCase(<<"g", "e", "g", "e", "n">>),
        Cat(<<NoCase(<<"v">>), Opt(NoCase(<<"s">>)), Opt(Text(<<".">>))>>),
        Text(<<":">>)>>), Star(Chars(Space)), Group(2, Chars(Digit))>>)

\* r'\b(\d)\s*(?:gegen|vs\.?)\s*(\d)\b'
PLAY_FORMATS_2 ==
    Cat(<<WordBoundary, Group(1, Chars(Digit)), Star(Chars(Space)),
        Alt(<<NoCase(<<"g", "e", "g", "e", "n">>), Cat(<<NoCase(<<"v",
        "s">>), Opt(Text(<<".">>))>>)>>), Star(Chars(Space)), Group(2,
        Chars(Digit)), WordBoundary>>)

\* r'Funin[o<n with tilde>]o?'
PLAY_FORMATS_3 ==
    Cat(<<NoCase(<<"F", "u", "n", "i", "n">>), Chars({"o", "O"}),
        Opt(NoCase(<<"o">>))>>)

\* r'Spielmodus[:\s]*(\d+\s*\+\s*\d+)'
PLAY_FORMATS_4 ==
    Cat(<<NoCase(<<"S", "p", "i", "e", "l", "m", "o", "d", "u", "s">>),
        Star(Chars(Space \cup {":"})), Group(1, Cat(<<Plus(Chars(Digit)),
        Star(Chars(Space)), Text(<<"+">>), Star(Chars(Space)),
        Plus(Chars(Digit))>>))>>)

\* What _extract_play_format returns: (format, confidence); "" is <<>>.
FormatResult(format, conf) == [format |-> format, conf |-> conf]

\* The +1 format and its validation: 3 to 7 players, one keeper.
PlusFormat(match, text) ==
    IF /\ match.found
       /\ 3 <= ParseInt(group(match, text, 1))
       /\ ParseInt(group(match, text, 1)) <= 7
       /\ ParseInt(group(match, text, 2)) = 1
    THEN [ok |-> TRUE,
          value |-> FormatResult(group(match, text, 1) \o <<"+">>
                                     \o group(match, text, 2), 100)]
    ELSE [ok |-> FALSE, value |-> FormatResult(<<>>, 0)]

\* f"{match.group(1)} vs {match.group(2)}"
Versus(match, text) ==
    group(match, text, 1) \o <<" ", "v", "s", " ">> \o group(match, text, 2)

\* The standalone vs format and its validation: 3 to 7 on both sides.
VersusFormat(match, text) ==
    IF /\ match.found
       /\ 3 <= ParseInt(group(match, text, 1))
       /\ ParseInt(group(match, text, 1)) <= 7
       /\ 3 <= ParseInt(group(match, text, 2))
       /\ ParseInt(group(match, text, 2)) <= 7
    THEN [ok |-> TRUE, value |-> FormatResult(Versus(match, text), 70)]
    ELSE [ok |-> FALSE, value |-> FormatResult(<<>>, 0)]

\* The end of the cascade: Funino, or nothing.
FuninoFormat(text) ==
    IF search(PLAY_FORMATS_3, text).found
    THEN FormatResult(<<"F", "u", "n", "i", "n", "o">>, 100)
    ELSE FormatResult(<<>>, 0)

_extract_play_format(text) ==
    LET plus == PlusFormat(search(PLAY_FORMATS_0, text), text)
        m4 == search(PLAY_FORMATS_4, text)
        m1 == search(PLAY_FORMATS_1, text)
        versus == VersusFormat(search(PLAY_FORMATS_2, text), text)
    IN  IF plus.ok THEN plus.value
        ELSE IF m4.found THEN FormatResult(group(m4, text, 1), 95)
        ELSE IF m1.found THEN FormatResult(Versus(m1, text), 90)
        ELSE IF versus.ok THEN versus.value
        ELSE FuninoFormat(text)

\* r'((?:Turn|Sport)halle\s+(?:der\s+)?[A-Z{AE}{OE}{UE}a-z{ae}{oe}{ue}{sz}\-\s
\*     ]+?(?:[Ss]chule|[Gg]rundschule))'
LOCATIONS_0 ==
    Group(1, Cat(<<Alt(<<NoCase(<<"T", "u", "r", "n">>), NoCase(<<"S", "p",
        "o", "r", "t">>)>>), NoCase(<<"h", "a", "l", "l", "e">>),
        Plus(Chars(Space)), Opt(Cat(<<NoCase(<<"d", "e", "r">>),
        Plus(Chars(Space))>>)),
        LazyPlus(Chars(Letter \cup Space \cup {"-"})),
        Alt(<<Cat(<<Chars({"s", "S"}), NoCase(<<"c", "h", "u", "l",
        "e">>)>>), Cat(<<Chars({"g", "G"}), NoCase(<<"r", "u", "n", "d", "s",
        "c", "h", "u", "l", "e">>)>>)>>)>>))

\* r'{pin}\s*([A-Z{AE}{OE}{UE}a-z{ae}{oe}{ue}{sz}\s\-]+(?:halle|schule|platz|s
\*     tadion|feld)[A-Z{AE}{OE}{UE}a-z{ae}{oe}{ue}{sz}\s\-]*)'
LOCATIONS_1 ==
    Cat(<<Text(<<"pin">>), Star(Chars(Space)), Group(1,
        Cat(<<Plus(Chars(Letter \cup Space \cup {"-"})), Alt(<<NoCase(<<"h",
        "a", "l", "l", "e">>), NoCase(<<"s", "c", "h", "u", "l", "e">>),
        NoCase(<<"p", "l", "a", "t", "z">>), NoCase(<<"s", "t", "a", "d",
        "i", "o", "n">>), NoCase(<<"f", "e", "l", "d">>)>>),
        Star(Chars(Letter \cup Space \cup {"-"}))>>))>>)

\* r'Spielort\s+ist\s+(?:die\s+)?([A-Z{AE}{OE}{UE}a-z{ae}{oe}{ue}{sz}\s\-]+?(?
\*     :halle|platz|feld)[A-Z{AE}{OE}{UE}a-z{ae}{oe}{ue}{sz}\s\-]*?)(?:\s+in\s
\*     +([A-Z{AE}{OE}{UE}a-z{ae}{oe}{ue}{sz}\s\-]+?))?(?:\.|,|$)'
LOCATIONS_2 ==
    Cat(<<NoCase(<<"S", "p", "i", "e", "l", "o", "r", "t">>),
        Plus(Chars(Space)), NoCase(<<"i", "s", "t">>), Plus(Chars(Space)),
        Opt(Cat(<<NoCase(<<"d", "i", "e">>), Plus(Chars(Space))>>)), Group(1,
        Cat(<<LazyPlus(Chars(Letter \cup Space \cup {"-"})),
        Alt(<<NoCase(<<"h", "a", "l", "l", "e">>), NoCase(<<"p", "l", "a",
        "t", "z">>), NoCase(<<"f", "e", "l", "d">>)>>),
        LazyStar(Chars(Letter \cup Space \cup {"-"}))>>)),
        Opt(Cat(<<Plus(Chars(Space)), NoCase(<<"i", "n">>),
        Plus(Chars(Space)), Group(2,
        LazyPlus(Chars(Letter \cup Space \cup {"-"})))>>)),
        Alt(<<Text(<<".">>), Text(<<",">>), TextEnd>>)>>)

\* r'(\b[A-Z{AE}{OE}{UE}a-z{ae}{oe}{ue}{sz}\s\.\-]+(?:str\.?|stra{sz}e|weg|dam
\*     m|allee|platz|zeile|ring|chaussee|ufer)\s+\d+(?:[\s\-]*\d+)?[a-z]?)'
LOCATIONS_3 ==
    Group(1, Cat(<<WordBoundary, Plus(Chars(Letter \cup Space \cup {".",
        "-"})), Alt(<<Cat(<<NoCase(<<"s", "t", "r">>), Opt(Text(<<".">>))>>),
        NoCase(<<"s", "t", "r", "a", "sz", "e">>), NoCase(<<"w", "e", "g">>),
        NoCase(<<"d", "a", "m", "m">>), NoCase(<<"a", "l", "l", "e", "e">>),
        NoCase(<<"p", "l", "a", "t", "z">>), NoCase(<<"z", "e", "i", "l",
        "e">>), NoCase(<<"r", "i", "n", "g">>), NoCase(<<"c", "h", "a", "u",
        "s", "s", "e", "e">>), NoCase(<<"u", "f", "e", "r">>)>>),
        Plus(Chars(Space)), Plus(Chars(Digit)),
        Opt(Cat(<<Star(Chars(Space \cup {"-"})), Plus(Chars(Digit))>>)),
        Opt(Chars({"a", "b", "c", "d", "e", "f", "g", "h", "i", "j", "k",
        "l", "m", "n", "o", "p", "q", "r", "s", "t", "u", "v", "w", "x", "y",
        "z", "A", "B", "C", "D", "E", "F", "G", "H", "I", "J", "K", "L", "M",
        "N", "O", "P", "Q", "R", "S", "T", "U", "V", "W", "X", "Y", "Z"}))>>))

\* r'([A-Z{AE}{OE}{UE}a-z{ae}{oe}{ue}{sz}\-]+(?:stra{sz}e|strasse|str\.|weg|da
\*     mm|platz|allee|ring|chaussee|ufer|zeile)[.\s]+\d+[a-z]?)[,\s\+]+(\d{5})
\*     [,\s]*(Berlin|Brandenburg[^.]*|Potsdam)?'
LOCATIONS_4 ==
    Cat(<<Group(1, Cat(<<Plus(Chars(Letter \cup {"-"})), Alt(<<NoCase(<<"s",
        "t", "r", "a", "sz", "e">>), NoCase(<<"s", "t", "r", "a", "s", "s",
        "e">>), NoCase(<<"s", "t", "r", ".">>), NoCase(<<"w", "e", "g">>),
        NoCase(<<"d", "a", "m", "m">>), NoCase(<<"p", "l", "a", "t", "z">>),
        NoCase(<<"a", "l", "l", "e", "e">>), NoCase(<<"r", "i", "n", "g">>),
        NoCase(<<"c", "h", "a", "u", "s", "s", "e", "e">>), NoCase(<<"u",
        "f", "e", "r">>), NoCase(<<"z", "e", "i", "l", "e">>)>>),
        Plus(Chars(Space \cup {"."})), Plus(Chars(Digit)), Opt(Chars({"a",
        "b", "c", "d", "e", "f", "g", "h", "i", "j", "k", "l", "m", "n", "o",
        "p", "q", "r", "s", "t", "u", "v", "w", "x", "y", "z", "A", "B", "C",
        "D", "E", "F", "G", "H", "I", "J", "K", "L", "M", "N", "O", "P", "Q",
        "R", "S", "T", "U", "V", "W", "X", "Y", "Z"}))>>)),
        Plus(Chars(Space \cup {"+", ","})), Group(2, Rep(Chars(Digit), 5,
        5)), Star(Chars(Space \cup {","})), Opt(Group(3, Alt(<<NoCase(<<"B",
        "e", "r", "l", "i", "n">>), Cat(<<NoCase(<<"B", "r", "a", "n", "d",
        "e", "n", "b", "u", "r", "g">>), Star(Chars(Alphabet \ {"."}))>>),
        NoCase(<<"P", "o", "t", "s", "d", "a", "m">>)>>)))>>)

\* r'Spielort[:\s]+([A-Z{AE}{OE}{UE}a-z{ae}{oe}{ue}{sz}\-]+)'
LOCATIONS_5 ==
    Cat(<<NoCase(<<"S", "p", "i", "e", "l", "o", "r", "t">>),
        Plus(Chars(Space \cup {":"})), Group(1,
        Plus(Chars(Letter \cup {"-"})))>>)

\* r'bei\s+uns\s+(?:in|im|auf)\s*([A-Z{AE}{OE}{UE}a-z{ae}{oe}{ue}{sz}\-]+)'
LOCATIONS_6 ==
    Cat(<<NoCase(<<"b", "e", "i">>), Plus(Chars(Space)), NoCase(<<"u", "n",
        "s">>), Plus(Chars(Space)), Alt(<<NoCase(<<"i", "n">>), NoCase(<<"i",
        "m">>), NoCase(<<"a", "u", "f">>)>>), Star(Chars(Space)), Group(1,
        Plus(Chars(Letter \cup {"-"})))>>)

\* r'spielschwach|spiel\s*schwach|schwach(?:e[rn]?)?'
SKILL_LEVELS_spielschwach ==
    Cat(<<NoCase(<<"s">>), Alt(<<NoCase(<<"p", "i", "e", "l", "s", "c", "h",
        "w", "a", "c", "h">>), Cat(<<NoCase(<<"p", "i", "e", "l">>),
        Star(Chars(Space)), NoCase(<<"s", "c", "h", "w", "a", "c", "h">>)>>),
        Cat(<<NoCase(<<"c", "h", "w", "a", "c", "h">>),
        Opt(Cat(<<NoCase(<<"e">>), Opt(Chars({"n", "r", "N",
        "R"}))>>))>>)>>)>>)

\* r'mittelstark|mittel\s*stark|mittel(?:starke?[rn]?)?'
SKILL_LEVELS_mittelstark ==
    Cat(<<NoCase(<<"m", "i", "t", "t", "e", "l">>), Alt(<<NoCase(<<"s", "t",
        "a", "r", "k">>), Cat(<<Star(Chars(Space)), NoCase(<<"s", "t", "a",
        "r", "k">>)>>), Opt(Cat(<<NoCase(<<"s", "t", "a", "r", "k">>),
        Opt(NoCase(<<"e">>)), Opt(Chars({"n", "r", "N", "R"}))>>))>>)>>)

\* r'spielstark|spiel\s*stark|stark(?:e[rn]?)?|leistungsstark'
SKILL_LEVELS_spielstark ==
    Alt(<<NoCase(<<"s", "p", "i", "e", "l", "s", "t", "a", "r", "k">>),
        Cat(<<NoCase(<<"s", "p", "i", "e", "l">>), Star(Chars(Space)),
        NoCase(<<"s", "t", "a", "r", "k">>)>>), Cat(<<NoCase(<<"s", "t", "a",
        "r", "k">>), Opt(Cat(<<NoCase(<<"e">>), Opt(Chars({"n", "r", "N",
        "R"}))>>))>>), NoCase(<<"l", "e", "i", "s", "t", "u", "n", "g", "s",
        "s", "t", "a", "r", "k">>)>>)

\* r'U\s*(\d{1,2})'
AGE_GROUPS_0 ==
    Cat(<<NoCase(<<"U">>), Star(Chars(Space)), Group(1, Rep(Chars(Digit), 1,
        2))>>)

\* r'([EFGD])\s*[-]?\s*Jugend'
AGE_GROUPS_1 ==
    Cat(<<Group(1, Chars({"d", "e", "f", "g", "D", "E", "F", "G"})),
        Star(Chars(Space)), Opt(Text(<<"-">>)), Star(Chars(Space)),
        NoCase(<<"J", "u", "g", "e", "n", "d">>)>>)

\* r'(?:Jahrgang|JG\.?|Jg\.?)\s*(\d{4})'
AGE_GROUPS_2 ==
    Cat(<<NoCase(<<"J">>), Alt(<<NoCase(<<"a", "h", "r", "g", "a", "n",
        "g">>), Cat(<<NoCase(<<"G">>), Opt(Text(<<".">>))>>),
        Cat(<<NoCase(<<"g">>), Opt(Text(<<".">>))>>)>>), Star(Chars(Space)),
        Group(1, Rep(Chars(Digit), 4, 4))>>)

\* r'2014(?:er)?|2015(?:er)?|2013(?:er)?'
AGE_GROUPS_3 ==
    Cat(<<Text(<<"2", "0", "1">>), Alt(<<Cat(<<Text(<<"4">>),
        Opt(NoCase(<<"e", "r">>))>>), Cat(<<Text(<<"5">>), Opt(NoCase(<<"e",
        "r">>))>>), Cat(<<Text(<<"3">>), Opt(NoCase(<<"e", "r">>))>>)>>)>>)

\* r'Turnier|Cup|Pokal|Hallenturnier|Feldturnier|Leistungsvergleich|Weihnachts
\*     turnier|Herbstturnier|Fr{ue}hlingsturnier|Sommerturnier'
EVENT_TYPES_tournament ==
    Alt(<<NoCase(<<"T", "u", "r", "n", "i", "e", "r">>), NoCase(<<"C", "u",
        "p">>), NoCase(<<"P", "o", "k", "a", "l">>), NoCase(<<"H", "a", "l",
        "l", "e", "n", "t", "u", "r", "n", "i", "e", "r">>), NoCase(<<"F",
        "e", "l", "d", "t", "u", "r", "n", "i", "e", "r">>), NoCase(<<"L",
        "e", "i", "s", "t", "u", "n", "g", "s", "v", "e", "r", "g", "l", "e",
        "i", "c", "h">>), NoCase(<<"W", "e", "i", "h", "n", "a", "c", "h",
        "t", "s", "t", "u", "r", "n", "i", "e", "r">>), NoCase(<<"H", "e",
        "r", "b", "s", "t", "t", "u", "r", "n", "i", "e", "r">>),
        NoCase(<<"F", "r", "ue", "h", "l", "i", "n", "g", "s", "t", "u", "r",
        "n", "i", "e", "r">>), NoCase(<<"S", "o", "m", "m", "e", "r", "t",
        "u", "r", "n", "i", "e", "r">>)>>)

\* r'Testspiel|Freundschaftsspiel|Trainingsspiel|Spielpartner|Testspielgegner|
\*     Spielgegner|Gegner\s+(?:gesucht|sucht)'
EVENT_TYPES_friendly_match ==
    Alt(<<NoCase(<<"T", "e", "s", "t", "s", "p", "i", "e", "l">>),
        NoCase(<<"F", "r", "e", "u", "n", "d", "s", "c", "h", "a", "f", "t",
        "s", "s", "p", "i", "e", "l">>), NoCase(<<"T", "r", "a", "i", "n",
        "i", "n", "g", "s", "s", "p", "i", "e", "l">>), NoCase(<<"S", "p",
        "i", "e", "l", "p", "a", "r", "t", "n", "e", "r">>), NoCase(<<"T",
        "e", "s", "t", "s", "p", "i", "e", "l", "g", "e", "g", "n", "e",
        "r">>), NoCase(<<"S", "p", "i", "e", "l", "g", "e", "g", "n", "e",
        "r">>), Cat(<<NoCase(<<"G", "e", "g", "n", "e", "r">>),
        Plus(Chars(Space)), Alt(<<NoCase(<<"g", "e", "s", "u", "c", "h",
        "t">>), NoCase(<<"s", "u", "c", "h", "t">>)>>)>>)>>)

\* r'Training|Trainingszeit|gemeinsames?\s+Training|mittrainieren'
EVENT_TYPES_training ==
    Alt(<<NoCase(<<"T", "r", "a", "i", "n", "i", "n", "g">>), NoCase(<<"T",
        "r", "a", "i", "n", "i", "n", "g", "s", "z", "e", "i", "t">>),
        Cat(<<NoCase(<<"g", "e", "m", "e", "i", "n", "s", "a", "m", "e">>),
        Opt(NoCase(<<"s">>)), Plus(Chars(Space)), NoCase(<<"T", "r", "a",
        "i", "n", "i", "n", "g">>)>>), NoCase(<<"m", "i", "t", "t", "r", "a",
        "i", "n", "i", "e", "r", "e", "n">>)>>)

\* r'(?:vom?|von|der|des|bei)?\s*(?:1\.\s*)?((?:FC|SC|SV|BFC|TSV|FSV|VfB|SpVgg
\*     |SG|SK|BSC|NFC|TuS|LBC|Hertha|Union|Dynamo|Tennis\s*Borussia|Berliner\s
\*     *AK|BAK|S\.?\s*D\.?|Rot[\s\-]?Wei{sz}|Blau[\s\-]?Gelb|Askania|BSV|Borus
\*     sia)(?:\d{4})?\s*[A-Z{AE}{OE}{UE}a-z{ae}{oe}{ue}{sz}]?[A-Z{AE}{OE}{UE}a
\*     -z{ae}{oe}{ue}{sz}\s\-\.]*?)(?:\s*(?:D\d+|U\d+|F\d+|\d{4}er?|e\.V\.)|,|
\*     \s*{soccer}{vs16}|\s*l{ae}dt|\s*sucht|\s+D\d|$)'
CLUB_FULL ==
    Cat(<<Opt(Alt(<<Cat(<<NoCase(<<"v", "o">>), Opt(NoCase(<<"m">>))>>),
        NoCase(<<"v", "o", "n">>), NoCase(<<"d", "e", "r">>), NoCase(<<"d",
        "e", "s">>), NoCase(<<"b", "e", "i">>)>>)), Star(Chars(Space)),
        Opt(Cat(<<Text(<<"1", ".">>), Star(Chars(Space))>>)), Group(1,
        Cat(<<Alt(<<NoCase(<<"F", "C">>), NoCase(<<"S", "C">>), NoCase(<<"S",
        "V">>), NoCase(<<"B", "F", "C">>), NoCase(<<"T", "S", "V">>),
        NoCase(<<"F", "S", "V">>), NoCase(<<"V", "f", "B">>), NoCase(<<"S",
        "p", "V", "g", "g">>), NoCase(<<"S", "G">>), NoCase(<<"S", "K">>),
        NoCase(<<"B", "S", "C">>), NoCase(<<"N", "F", "C">>), NoCase(<<"T",
        "u", "S">>), NoCase(<<"L", "B", "C">>), NoCase(<<"H", "e", "r", "t",
        "h", "a">>), NoCase(<<"U", "n", "i", "o", "n">>), NoCase(<<"D", "y",
        "n", "a", "m", "o">>), Cat(<<NoCase(<<"T", "e", "n", "n", "i",
        "s">>), Star(Chars(Space)), NoCase(<<"B", "o", "r", "u", "s", "s",
        "i", "a">>)>>), Cat(<<NoCase(<<"B", "e", "r", "l", "i", "n", "e",
        "r">>), Star(Chars(Space)), NoCase(<<"A", "K">>)>>), NoCase(<<"B",
        "A", "K">>), Cat(<<NoCase(<<"S">>), Opt(Text(<<".">>)),
        Star(Chars(Space)), NoCase(<<"D">>), Opt(Text(<<".">>))>>),
        Cat(<<NoCase(<<"R", "o", "t">>), Opt(Chars(Space \cup {"-"})),
        NoCase(<<"W", "e", "i", "sz">>)>>), Cat(<<NoCase(<<"B", "l", "a",
        "u">>), Opt(Chars(Space \cup {"-"})), NoCase(<<"G", "e", "l",
        "b">>)>>), NoCase(<<"A", "s", "k", "a", "n", "i", "a">>),
        NoCase(<<"B", "S", "V">>), NoCase(<<"B", "o", "r", "u", "s", "s",
        "i", "a">>)>>), Opt(Rep(Chars(Digit), 4, 4)), Star(Chars(Space)),
        Opt(Chars(Letter)), LazyStar(Chars(Letter \cup Space \cup {".",
        "-"}))>>)), Alt(<<Cat(<<Star(Chars(Space)),
        Alt(<<Cat(<<NoCase(<<"D">>), Plus(Chars(Digit))>>),
        Cat(<<NoCase(<<"U">>), Plus(Chars(Digit))>>), Cat(<<NoCase(<<"F">>),
        Plus(Chars(Digit))>>), Cat(<<Rep(Chars(Digit), 4, 4),
        NoCase(<<"e">>), Opt(NoCase(<<"r">>))>>), NoCase(<<"e", ".", "V",
        ".">>)>>)>>), Text(<<",">>), Cat(<<Star(Chars(Space)),
        Text(<<"soccer", "vs16">>)>>), Cat(<<Star(Chars(Space)),
        NoCase(<<"l", "ae", "d", "t">>)>>), Cat(<<Star(Chars(Space)),
        NoCase(<<"s", "u", "c", "h", "t">>)>>), Cat(<<Plus(Chars(Space)),
        NoCase(<<"D">>), Chars(Digit)>>), TextEnd>>)>>)

\* r'(?:Gr{ue}{sz}e?|Gru{sz}|VG|LG|MfG|Sportliche Gr{ue}{sz}e)\s*,?\s*\n?\s*([
\*     A-Z{AE}{OE}{UE}a-z{ae}{oe}{ue}{sz}]+(?:\s+[A-Z{AE}{OE}{UE}a-z{ae}{oe}{u
\*     e}{sz}]+)?)(?:[,\s]+)?((?:1\.\s*)?(?:FC|SC|SV|BFC|TSV|FSV|VfB|SpVgg|SG|
\*     SK|BSC|NFC|TuS|S\.?\s*D\.?|BSV|Askania|Rot[\s\-]?Wei{sz}|Blau[\s\-]?Gel
\*     b|Borussia)\s*(?:\d{4}\s*)?[A-Z{AE}{OE}{UE}a-z{ae}{oe}{ue}{sz}\s\-\.]+)
\*     ?'
SIGNATURE ==
    Cat(<<Alt(<<Cat(<<NoCase(<<"G", "r", "ue", "sz">>),
        Opt(NoCase(<<"e">>))>>), NoCase(<<"G", "r", "u", "sz">>),
        NoCase(<<"V", "G">>), NoCase(<<"L", "G">>), NoCase(<<"M", "f",
        "G">>), NoCase(<<"S", "p", "o", "r", "t", "l", "i", "c", "h", "e",
        " ", "G", "r", "ue", "sz", "e">>)>>), Star(Chars(Space)),
        Opt(Text(<<",">>)), Star(Chars(Space)), Opt(Text(<<"\n">>)),
        Star(Chars(Space)), Group(1, Cat(<<Plus(Chars(Letter)),
        Opt(Cat(<<Plus(Chars(Space)), Plus(Chars(Letter))>>))>>)),
        Opt(Plus(Chars(Space \cup {","}))), Opt(Group(2,
        Cat(<<Opt(Cat(<<Text(<<"1", ".">>), Star(Chars(Space))>>)),
        Alt(<<NoCase(<<"F", "C">>), NoCase(<<"S", "C">>), NoCase(<<"S",
        "V">>), NoCase(<<"B", "F", "C">>), NoCase(<<"T", "S", "V">>),
        NoCase(<<"F", "S", "V">>), NoCase(<<"V", "f", "B">>), NoCase(<<"S",
        "p", "V", "g", "g">>), NoCase(<<"S", "G">>), NoCase(<<"S", "K">>),
        NoCase(<<"B", "S", "C">>), NoCase(<<"N", "F", "C">>), NoCase(<<"T",
        "u", "S">>), Cat(<<NoCase(<<"S">>), Opt(Text(<<".">>)),
        Star(Chars(Space)), NoCase(<<"D">>), Opt(Text(<<".">>))>>),
        NoCase(<<"B", "S", "V">>), NoCase(<<"A", "s", "k", "a", "n", "i",
        "a">>), Cat(<<NoCase(<<"R", "o", "t">>),
        Opt(Chars(Space \cup {"-"})), NoCase(<<"W", "e", "i", "sz">>)>>),
        Cat(<<NoCase(<<"B", "l", "a", "u">>), Opt(Chars(Space \cup {"-"})),
        NoCase(<<"G", "e", "l", "b">>)>>), NoCase(<<"B", "o", "r", "u", "s",
        "s", "i", "a">>)>>), Star(Chars(Space)), Opt(Cat(<<Rep(Chars(Digit),
        4, 4), Star(Chars(Space))>>)),
        Plus(Chars(Letter \cup Space \cup {".", "-"}))>>)))>>)

\* r'(LBC\s*\d+(?:\s*\|?\s*BERLIN)?)'
ocr_club_pattern ==
    Group(1, Cat(<<NoCase(<<"L", "B", "C">>), Star(Chars(Space)),
        Plus(Chars(Digit)), Opt(Cat(<<Star(Chars(Space)), Opt(Text(<<"|">>)),
        Star(Chars(Space)), NoCase(<<"B", "E", "R", "L", "I", "N">>)>>))>>))

\* r'(?:Der\s+)?(BFC\s+Pre{ue}?ssen)'
bfc_pattern ==
    Cat(<<Opt(Cat(<<NoCase(<<"D", "e", "r">>), Plus(Chars(Space))>>)),
        Group(1, Cat(<<NoCase(<<"B", "F", "C">>), Plus(Chars(Space)),
        NoCase(<<"P", "r", "e">>), Opt(NoCase(<<"ue">>)), NoCase(<<"s", "s",
        "e", "n">>)>>))>>)

\* r'((?:FC|SC|SV|BSV)\s+Borussia\s*(?:\d{4})?\s*[A-Z{AE}{OE}{UE}a-z{ae}{oe}{u
\*     e}{sz}]+)'
combo_pattern ==
    Group(1, Cat(<<Alt(<<NoCase(<<"F", "C">>), NoCase(<<"S", "C">>),
        NoCase(<<"S", "V">>), NoCase(<<"B", "S", "V">>)>>),
        Plus(Chars(Space)), NoCase(<<"B", "o", "r", "u", "s", "s", "i",
        "a">>), Star(Chars(Space)), Opt(Rep(Chars(Digit), 4, 4)),
        Star(Chars(Space)), Plus(Chars(Letter))>>))

\* r'(?:die\s+)?(?:\d\.?\s*)?(?:D|E|F)-?(?:Jugend)?\s+(?:von|des)\s+((?:S\.?\s
\*     *D\.?|FC|SC|SV|BSV|SG|TuS|Borussia)\s*(?:\d{4}\s*)?[A-Z{AE}{OE}{UE}a-z{
\*     ae}{oe}{ue}{sz}][A-Z{AE}{OE}{UE}a-z{ae}{oe}{ue}{sz}\s\-\.]+?)(?:\s+l{ae
\*     }dt|\s+sucht|,|{soccer}{vs16}|$)'
von_pattern ==
    Cat(<<Opt(Cat(<<NoCase(<<"d", "i", "e">>), Plus(Chars(Space))>>)),
        Opt(Cat(<<Chars(Digit), Opt(Text(<<".">>)), Star(Chars(Space))>>)),
        Chars({"d", "e", "f", "D", "E", "F"}), Opt(Text(<<"-">>)),
        Opt(NoCase(<<"J", "u", "g", "e", "n", "d">>)), Plus(Chars(Space)),
        Alt(<<NoCase(<<"v", "o", "n">>), NoCase(<<"d", "e", "s">>)>>),
        Plus(Chars(Space)), Group(1, Cat(<<Alt(<<Cat(<<NoCase(<<"S">>),
        Opt(Text(<<".">>)), Star(Chars(Space)), NoCase(<<"D">>),
        Opt(Text(<<".">>))>>), NoCase(<<"F", "C">>), NoCase(<<"S", "C">>),
        NoCase(<<"S", "V">>), NoCase(<<"B", "S", "V">>), NoCase(<<"S",
        "G">>), NoCase(<<"T", "u", "S">>), NoCase(<<"B", "o", "r", "u", "s",
        "s", "i", "a">>)>>), Star(Chars(Space)), Opt(Cat(<<Rep(Chars(Digit),
        4, 4), Star(Chars(Space))>>)), Chars(Letter),
        LazyPlus(Chars(Letter \cup Space \cup {".", "-"}))>>)),
        Alt(<<Cat(<<Plus(Chars(Space)), NoCase(<<"l", "ae", "d", "t">>)>>),
        Cat(<<Plus(Chars(Space)), NoCase(<<"s", "u", "c", "h", "t">>)>>),
        Text(<<",">>), Text(<<"soccer", "vs16">>), TextEnd>>)>>)

\* r'wir\s+(?:vom|von|der|des)\s+((?:FC|SC|SV|BSV|BSC|SG|TuS|Borussia)\s*(?:\d
\*     {4})?\s*[A-Z{AE}{OE}{UE}a-z{ae}{oe}{ue}{sz}]+)(?:\s+D\d|\s+suchen|\s+la
\*     den|,|\.|$)'
wir_pattern ==
    Cat(<<NoCase(<<"w", "i", "r">>), Plus(Chars(Space)), Alt(<<NoCase(<<"v",
        "o", "m">>), NoCase(<<"v", "o", "n">>), NoCase(<<"d", "e", "r">>),
        NoCase(<<"d", "e", "s">>)>>), Plus(Chars(Space)), Group(1,
        Cat(<<Alt(<<NoCase(<<"F", "C">>), NoCase(<<"S", "C">>), NoCase(<<"S",
        "V">>), NoCase(<<"B", "S", "V">>), NoCase(<<"B", "S", "C">>),
        NoCase(<<"S", "G">>), NoCase(<<"T", "u", "S">>), NoCase(<<"B", "o",
        "r", "u", "s", "s", "i", "a">>)>>), Star(Chars(Space)),
        Opt(Rep(Chars(Digit), 4, 4)), Star(Chars(Space)),
        Plus(Chars(Letter))>>)), Alt(<<Cat(<<Plus(Chars(Space)),
        NoCase(<<"D">>), Chars(Digit)>>), Cat(<<Plus(Chars(Space)),
        NoCase(<<"s", "u", "c", "h", "e", "n">>)>>),
        Cat(<<Plus(Chars(Space)), NoCase(<<"l", "a", "d", "e", "n">>)>>),
        Text(<<",">>), Text(<<".">>), TextEnd>>)>>)

\* r'((?:FC|SC|SV|BSV|BSC|SG|TuS)\s+[A-Z{AE}{OE}{UE}a-z{ae}{oe}{ue}{sz}]+(?:\s
\*     +\d{4})?\s*[A-Z{AE}{OE}{UE}a-z{ae}{oe}{ue}{sz}]*)'
standard_pattern ==
    Group(1, Cat(<<Alt(<<NoCase(<<"F", "C">>), NoCase(<<"S", "C">>),
        NoCase(<<"S", "V">>), NoCase(<<"B", "S", "V">>), NoCase(<<"B", "S",
        "C">>), NoCase(<<"S", "G">>), NoCase(<<"T", "u", "S">>)>>),
        Plus(Chars(Space)), Plus(Chars(Letter)),
        Opt(Cat(<<Plus(Chars(Space)), Rep(Chars(Digit), 4, 4)>>)),
        Star(Chars(Space)), Star(Chars(Letter))>>))

\* r'turnier|cup|pokal|testspiel|freundschaftsspiel|training|such(?:t|en|e)|ve
\*     ranstalte|einlad|melden|\d{1,2}\.\d{1,2}\.|\d{1,2}/\d{1,2}/|am\s+\d|den
\*     \s+\d|\d\s*\+\s*\d|funino|\d{1,2}:\d{2}|\d{1,2}\s*uhr'
indicators ==
    Alt(<<NoCase(<<"t", "u", "r", "n", "i", "e", "r">>), NoCase(<<"c", "u",
        "p">>), NoCase(<<"p", "o", "k", "a", "l">>), NoCase(<<"t", "e", "s",
        "t", "s", "p", "i", "e", "l">>), NoCase(<<"f", "r", "e", "u", "n",
        "d", "s", "c", "h", "a", "f", "t", "s", "s", "p", "i", "e", "l">>),
        NoCase(<<"t", "r", "a", "i", "n", "i", "n", "g">>),
        Cat(<<NoCase(<<"s", "u", "c", "h">>), Alt(<<NoCase(<<"t">>),
        NoCase(<<"e", "n">>), NoCase(<<"e">>)>>)>>), NoCase(<<"v", "e", "r",
        "a", "n", "s", "t", "a", "l", "t", "e">>), NoCase(<<"e", "i", "n",
        "l", "a", "d">>), NoCase(<<"m", "e", "l", "d", "e", "n">>),
        Cat(<<Rep(Chars(Digit), 1, 2), Text(<<".">>), Rep(Chars(Digit), 1,
        2), Text(<<".">>)>>), Cat(<<Rep(Chars(Digit), 1, 2), Text(<<"/">>),
        Rep(Chars(Digit), 1, 2), Text(<<"/">>)>>), Cat(<<NoCase(<<"a",
        "m">>), Plus(Chars(Space)), Chars(Digit)>>), Cat(<<NoCase(<<"d", "e",
        "n">>), Plus(Chars(Space)), Chars(Digit)>>), Cat(<<Chars(Digit),
        Star(Chars(Space)), Text(<<"+">>), Star(Chars(Space)),
        Chars(Digit)>>), NoCase(<<"f", "u", "n", "i", "n", "o">>),
        Cat(<<Rep(Chars(Digit), 1, 2), Text(<<":">>), Rep(Chars(Digit), 2,
        2)>>), Cat(<<Rep(Chars(Digit), 1, 2), Star(Chars(Space)),
        NoCase(<<"u", "h", "r">>)>>)>>)


(***************************************************************************)
(* The event extractor: FootballEventExtractor.extract_events,             *)
(* _extract_event and the field extractors (regex_analyzer.py).            *)
(* A confidence of a field is in hundredths, as are the weights of the     *)
(* fields; the confidence of an event is their product, in 1/10000.        *)
(***************************************************************************)

\* str.strip(): without the whitespace at both ends.
RECURSIVE lstrip(_)
lstrip(text) ==
    IF text # <<>> /\ Head(text) \in Space THEN lstrip(Tail(text)) ELSE text

strip(text) == Reverse(lstrip(Reverse(lstrip(text))))

\* re.sub(r'\s+', ' ', text): one blank for every run of whitespace.
RECURSIVE NormalizeWhitespace(_)
NormalizeWhitespace(text) ==
    IF text = <<>> THEN <<>>
    ELSE IF Head(text) \in Space
    THEN <<" ">> \o NormalizeWhitespace(lstrip(text))
    ELSE <<Head(text)>> \o NormalizeWhitespace(Tail(text))

\* str.replace(old, new), old not empty: the occurrences from left to right.
RECURSIVE replace(_, _, _)
replace(text, old, new) ==
    IF Len(text) < Len(old) THEN text
    ELSE IF SubSeq(text, 1, Len(old)) = old
    THEN new \o replace(SubSeq(text, Len(old) + 1, Len(text)), old, new)
    ELSE <<Head(text)>> \o replace(Tail(text), old, new)

\* text.split('\n')
RECURSIVE split(_)
split(text) ==
    IF \A i \in 1..Len(text) : text[i] # "\n" THEN <<text>>
    ELSE LET first == CHOOSE i \in 1..Len(text) :
                          text[i] = "\n" /\ \A j \in 1..(i - 1) : text[j] # "\n"
         IN  <<SubSeq(text, 1, first - 1)>>
                 \o split(SubSeq(text, first + 1, Len(text)))

\* The characters of the class [{soccer}{vs16}{trophy}{victory}] of the
\* organizer extractor.
Emoji == {"soccer", "vs16", "trophy", "victory"}

\* re.sub(r'[...]+', '', club): without the characters of the class.
WithoutAll(text, class) == SelectSeq(text, LAMBDA c : c \notin class)

\* re.sub(r'[...]+$', '', club), club stripped: without the run of characters
\* of the class at its end.
RECURSIVE WithoutTrailing(_, _)
WithoutTrailing(text, class) ==
    IF text # <<>> /\ text[Len(text)] \in class
    THEN WithoutTrailing(SubSeq(text, 1, Len(text) - 1), class)
    ELSE text

\* A group of a match that is None or empty is false in a condition.
Truthy(str) == str # NoneStr /\ str # <<>>

\* _extract_event_type: the first type of EVENT_TYPES, in the order of the
\* dictionary, whose pattern is found.
TypeResult(event_type, conf) == [event_type |-> event_type, conf |-> conf]

_extract_event_type(text) ==
    IF search(EVENT_TYPES_tournament, text).found
    THEN TypeResult("tournament", 100)
    ELSE IF search(EVENT_TYPES_friendly_match, text).found
    THEN TypeResult("friendly_match", 100)
    ELSE IF search(EVENT_TYPES_training, text).found
    THEN TypeResult("training", 100)
    ELSE TypeResult("unknown", 0)

\* SKILL_LEVELS, in the order of the dictionary.
SKILL_LEVELS ==
    <<[level |-> <<"s", "p", "i", "e", "l", "s", "c", "h", "w", "a", "c",
        "h">>, pattern |-> SKILL_LEVELS_spielschwach],
      [level |-> <<"m", "i", "t", "t", "e", "l", "s", "t", "a", "r", "k">>,
          pattern |-> SKILL_LEVELS_mittelstark],
      [level |-> <<"s", "p", "i", "e", "l", "s", "t", "a", "r", "k">>,
          pattern |-> SKILL_LEVELS_spielstark]>>

SkillResult(skill_level, conf) == [skill_level |-> skill_level, conf |-> conf]

\* ' - '.join(levels)
RECURSIVE JoinLevels(_)
JoinLevels(levels) ==
    IF Len(levels) = 1 THEN levels[1].level
    ELSE levels[1].level \o <<" ", "-", " ">> \o JoinLevels(Tail(levels))

SkillOfLevels(found_levels) ==
    IF Len(found_levels) = 1 THEN SkillResult(found_levels[1].level, 100)
    ELSE IF Len(found_levels) > 1 THEN SkillResult(JoinLevels(found_levels), 80)
    ELSE SkillResult(<<>>, 0)

_extract_skill_level(text) ==
    SkillOfLevels(SelectSeq(SKILL_LEVELS,
                            LAMBDA level : search(level.pattern, text).found))

AGE_GROUPS == <<AGE_GROUPS_0, AGE_GROUPS_1, AGE_GROUPS_2, AGE_GROUPS_3>>

AgeResult(age_group, conf) == [age_group |-> age_group, conf |-> conf]

\* for pattern in AGE_GROUPS: the first pattern found gives the age group.
RECURSIVE AgeLoop(_, _)
AgeLoop(patterns, text) ==
    IF patterns = <<>> THEN AgeResult(<<>>, 0)
    ELSE LET found == search(Head(patterns), text)
         IN  IF found.found THEN AgeResult(group(found, text, 0), 90)
             ELSE AgeLoop(Tail(patterns), text)

_extract_age_group(text) == AgeLoop(AGE_GROUPS, text)

LocationResult(location, address, conf) ==
    [location |-> location, address |-> address, conf |-> conf]

\* A branch of an extractor that did not return.
NoLocation == [ok |-> FALSE, value |-> LocationResult(<<>>, <<>>, 0)]

ReturnLocation(location, address, conf) ==
    [ok |-> TRUE, value |-> LocationResult(location, address, conf)]

\* address = street, then ", plz" and " city" when there are any.
AddressOf(street, plz, city) ==
    street \o (IF Truthy(plz) THEN <<",", " ">> \o plz ELSE <<>>)
           \o (IF Truthy(city) THEN <<" ">> \o city ELSE <<>>)

\* The address next to a hall: LOCATIONS[4] in the whole text.
StreetAddress(street_match, text) ==
    IF street_match.found
    THEN AddressOf(strip(group(street_match, text, 1)),
                   group(street_match, text, 2), group(street_match, text, 3))
    ELSE <<>>

HallOf(location, address) ==
    IF Len(location) > 8
    THEN ReturnLocation(location, address, IF address # <<>> THEN 90 ELSE 85)
    ELSE NoLocation

\* First: LOCATIONS[0], the hall of a school.
HallLocation(found, text) ==
    IF found.found
    THEN HallOf(NormalizeWhitespace(strip(group(found, text, 1))),
                StreetAddress(search(LOCATIONS_4, text), text))
    ELSE NoLocation

LongerThan(location, least, conf) ==
    IF Len(location) > least THEN ReturnLocation(location, <<>>, conf)
    ELSE NoLocation

\* Second: LOCATIONS[1], the pin.
PinLocation(found, text) ==
    IF found.found
    THEN LongerThan(NormalizeWhitespace(strip(group(found, text, 1))), 5, 85)
    ELSE NoLocation

StrippedOrEmpty(str) == IF Truthy(str) THEN strip(str) ELSE <<>>

HallInCity(hall, city) ==
    LongerThan(IF city # <<>> THEN hall \o <<" ", "(">> \o city \o <<")">> ELSE hall, 5, 85)

\* Third: LOCATIONS[2], "Spielort ist ... in ...".
SpielortIst(found, text) ==
    IF found.found
    THEN HallInCity(strip(NormalizeWhitespace(
                        StrippedOrEmpty(group(found, text, 1)))),
                    StrippedOrEmpty(group(found, text, 2)))
    ELSE NoLocation

StreetOf(address) ==
    IF Len(address) > 5 THEN ReturnLocation(address, address, 80)
    ELSE NoLocation

\* Fourth: LOCATIONS[3], a street and a number.
StreetLocation(found, text) ==
    IF found.found
    THEN StreetOf(NormalizeWhitespace(strip(group(found, text, 1))))
    ELSE NoLocation

FullOf(street, plz, city) ==
    ReturnLocation(IF city # <<>> THEN city ELSE street,
                   AddressOf(street, plz, city), 95)

\* Fifth: LOCATIONS[4], street, number and postcode.
FullAddress(found, text) ==
    IF found.found
    THEN FullOf(strip(group(found, text, 1)), group(found, text, 2),
                StrippedOrEmpty(group(found, text, 3)))
    ELSE NoLocation

\* Sixth: LOCATIONS[5], "Spielort: ...".
SpielortSimple(found, text) ==
    IF found.found THEN LongerThan(strip(group(found, text, 1)), 3, 70)
    ELSE NoLocation

\* Seventh: LOCATIONS[6], "bei uns in ...".
BeiUns(found, text) ==
    IF found.found
    THEN ReturnLocation(strip(group(found, text, 1)), <<>>, 60)
    ELSE NoLocation

_extract_location(text) ==
    LET first == HallLocation(search(LOCATIONS_0, text), text)
        second == PinLocation(search(LOCATIONS_1, text), text)
        third == SpielortIst(search(LOCATIONS_2, text), text)
        fourth == StreetLocation(search(LOCATIONS_3, text), text)
        fifth == FullAddress(search(LOCATIONS_4, text), text)
        sixth == SpielortSimple(search(LOCATIONS_5, text), text)
        seventh == BeiUns(search(LOCATIONS_6, text), text)
    IN  IF first.ok THEN first.value
        ELSE IF second.ok THEN second.value
        ELSE IF third.ok THEN third.value
        ELSE IF fourth.ok THEN fourth.value
        ELSE IF fifth.ok THEN fifth.value
        ELSE IF sixth.ok THEN sixth.value
        ELSE IF seventh.ok THEN seventh.value
        ELSE LocationResult(<<>>, <<>>, 0)

OrganizerResult(organizer, conf) == [organizer |-> organizer, conf |-> conf]

NoOrganizer == [ok |-> FALSE, value |-> OrganizerResult(<<>>, 0)]

ReturnOrganizer(club, conf) ==
    [ok |-> TRUE, value |-> OrganizerResult(club, conf)]

ClubLongerThan(club, least, conf) ==
    IF Len(club) > least THEN ReturnOrganizer(club, conf) ELSE NoOrganizer

\* ocr_club_pattern: "LBC 25 | BERLIN".
OcrClub(found, text) ==
    IF found.found
    THEN ReturnOrganizer(replace(replace(strip(group(found, text, 1)),
                                         <<"|">>, <<>>), <<" ", " ">>, <<" ">>), 80)
    ELSE NoOrganizer

\* bfc_pattern: however it is written, the club is "BFC Preussen".
BfcClub(found) ==
    IF found.found THEN ReturnOrganizer(<<"B", "F", "C", " ", "P", "r", "e",
        "u", "s", "s", "e", "n">>, 90) ELSE NoOrganizer

\* First: combo_pattern, "SC Borussia 1920 Friedrichsfelde".
ComboClub(found, text) ==
    IF found.found THEN ClubLongerThan(strip(group(found, text, 1)), 8, 95)
    ELSE NoOrganizer

\* Second: von_pattern, "die 2. D-Jugend von ...".
VonClub(found, text) ==
    IF found.found
    THEN ClubLongerThan(strip(WithoutTrailing(strip(group(found, text, 1)),
                                              Emoji)), 5, 95)
    ELSE NoOrganizer

SignatureOf(club) ==
    IF club # <<>>
    THEN ClubLongerThan(NormalizeWhitespace(strip(WithoutAll(club, Emoji))),
                        5, 90)
    ELSE NoOrganizer

\* Third: SIGNATURE, the club after the greeting and the name.
SignatureClub(sig_match, text) ==
    IF sig_match.found
    THEN SignatureOf(StrippedOrEmpty(group(sig_match, text, 2)))
    ELSE NoOrganizer

\* Fourth: wir_pattern, "wir vom ... suchen".
WirClub(found, text) ==
    IF found.found THEN ClubLongerThan(strip(group(found, text, 1)), 5, 90)
    ELSE NoOrganizer

\* Fifth: standard_pattern, a club name with its prefix.
StandardClub(found, text) ==
    IF found.found
    THEN ClubLongerThan(strip(WithoutTrailing(strip(group(found, text, 1)),
                                              Emoji \cup {","})), 5, 85)
    ELSE NoOrganizer

\* Sixth: CLUB_FULL in the whole text.
FullClub(found, text) ==
    IF found.found
    THEN ClubLongerThan(NormalizeWhitespace(strip(WithoutAll(
                            strip(group(found, text, 1)), Emoji))), 5, 85)
    ELSE NoOrganizer

\* CLUB_FULL in one of the last lines.
LineClub(club_match, line) ==
    IF club_match.found
    THEN ClubLongerThan(strip(WithoutAll(strip(group(club_match, line, 1)),
                                         Emoji)), 5, 80)
    ELSE NoOrganizer

\* for line in reversed(text_lines[-5:]): text_lines holds them in that order.
RECURSIVE LastLinesLoop(_)
LastLinesLoop(text_lines) ==
    IF text_lines = <<>> THEN NoOrganizer
    ELSE LET line == strip(Head(text_lines))
             club == IF line = <<>> THEN NoOrganizer
                     ELSE LineClub(search(CLUB_FULL, line), line)
         IN  IF club.ok THEN club ELSE LastLinesLoop(Tail(text_lines))

\* reversed(text_lines[-5:])
LastFive(text_lines) ==
    Reverse(SubSeq(text_lines, IF Len(text_lines) > 5 THEN Len(text_lines) - 4 ELSE 1,
                   Len(text_lines)))

_extract_organizer(text, sender) ==
    LET ocr == OcrClub(search(ocr_club_pattern, text), text)
        bfc == BfcClub(search(bfc_pattern, text))
        combo == ComboClub(search(combo_pattern, text), text)
        von == VonClub(search(von_pattern, text), text)
        signature == SignatureClub(search(SIGNATURE, text), text)
        wir == WirClub(search(wir_pattern, text), text)
        standard == StandardClub(search(standard_pattern, text), text)
        full == FullClub(search(CLUB_FULL, text), text)
        last == LastLinesLoop(LastFive(split(strip(text))))
    IN  IF ocr.ok THEN ocr.value
        ELSE IF bfc.ok THEN bfc.value
        ELSE IF combo.ok THEN combo.value
        ELSE IF von.ok THEN von.value
        ELSE IF signature.ok THEN signature.value
        ELSE IF wir.ok THEN wir.value
        ELSE IF standard.ok THEN standard.value
        ELSE IF full.ok THEN full.value
        ELSE IF last.ok THEN last.value
        ELSE OrganizerResult(<<>>, 0)

\* The texts that make a message a notification of WhatsApp itself.
system_indicators ==
    <<<<"M", "e", "s", "s", "a", "g", "e", "s", " ", "a", "n", "d", " ", "c",
        "a", "l", "l", "s", " ", "a", "r", "e", " ", "e", "n", "d", "-", "t",
        "o", "-", "e", "n", "d", " ", "e", "n", "c", "r", "y", "p", "t", "e",
        "d">>,
      <<"c", "r", "e", "a", "t", "e", "d", " ", "g", "r", "o", "u", "p">>,
      <<"a", "d", "d", "e", "d", " ", "y", "o", "u">>,
      <<"a", "d", "d", "e", "d", " ", "+">>,
      <<"l", "e", "f", "t">>,
      <<"r", "e", "m", "o", "v", "e", "d">>,
      <<"c", "h", "a", "n", "g", "e", "d", " ", "t", "h", "e", " ", "s", "u",
          "b", "j", "e", "c", "t">>,
      <<"c", "h", "a", "n", "g", "e", "d", " ", "t", "h", "i", "s", " ", "g", "r", "o", "u", "p">>,
      <<"T", "h", "i", "s", " ", "m", "e", "s", "s", "a", "g", "e", " ", "w",
          "a", "s", " ", "d", "e", "l", "e", "t", "e", "d">>>>

\* any(ind in msg.content for ind in system_indicators)
_is_system_message(msg) ==
    \E i \in DOMAIN system_indicators :
        Contains(system_indicators[i], msg.content)

\* bool(re.search('|'.join(indicators), text, re.IGNORECASE))
_is_event_relevant(text) == search(indicators, text).found

\* The weights of the fields in the confidence of an event, in hundredths.
TypeWeight == 20
DateWeight == 25
TimeWeight == 10
LocationWeight == 10
OrganizerWeight == 10
SkillWeight == 5
AgeWeight == 5
FormatWeight == 5

\* 1.0 and 0.3 as confidences of an event, in 1/10000.
FullConfidence == 10000
Threshold == 3000

\* confidence += conf * weight, field after field, and min(confidence, 1.0).
MutAssemble(type, d, t, loc, org, skill, age, format) ==
    Min(type * TypeWeight + d * DateWeight + t * TimeWeight
            + loc * LocationWeight + org * OrganizerWeight
            + skill * SkillWeight + age * AgeWeight + format * TimeWeight,
        FullConfidence)
Assemble(type, d, t, loc, org, skill, age, format) ==
    Min(type * TypeWeight + d * DateWeight + t * TimeWeight
            + loc * LocationWeight + org * OrganizerWeight
            + skill * SkillWeight + age * AgeWeight + format * FormatWeight,
        FullConfidence)

\* The ExtractedEvent made of what the field extractors returned.  Its id,
\* play_duration, teams_count, entry_fee, has_trophies, contact_phone and
\* status are read off the text after the confidence is summed and take no
\* part in it; they are left out.
Extracted(msg, type, d, t, loc, org, skill, age, format) ==
    [event_type |-> type.event_type,
     date |-> d.date,
     date_str |-> d.matched,
     time_start |-> t.start,
     time_end |-> t.end,
     location |-> loc.location,
     address |-> loc.address,
     organizer |-> org.organizer,
     skill_level |-> skill.skill_level,
     age_group |-> age.age_group,
     play_format |-> format.format,
     raw_message |-> msg.content,
     sender |-> msg.sender,
     message_date |-> msg.timestamp,
     confidence |-> Assemble(type.conf, d.conf, t.conf, loc.conf, org.conf,
                             skill.conf, age.conf, format.conf)]

_extract_event(msg) ==
    Extracted(msg,
              _extract_event_type(msg.content),
              _extract_date(msg.content, msg.timestamp),
              _extract_time(msg.content),
              _extract_location(msg.content),
              _extract_organizer(msg.content, msg.sender),
              _extract_skill_level(msg.content),
              _extract_age_group(msg.content),
              _extract_play_format(msg.content))

\* if event and event.confidence > 0.3: events.append(event), for every list
\* of events the loop may have gathered so far.  The confidence is a sum of
\* floating-point products: a sum that is 0.3 when computed exactly may come
\* out as 0.3 or just above it (0.2 + 0.1 is 0.30000000000000004), and then
\* the rounding decides the comparison; both outcomes are kept.  Every other
\* sum is a multiple of 0.0025 away from 0.3.
AppendIf(outcomes, event) ==
    IF event.confidence > Threshold
    THEN {Append(found, event) : found \in outcomes}
    ELSE IF event.confidence = Threshold
    THEN outcomes \cup {Append(found, event) : found \in outcomes}
    ELSE outcomes

\* The messages the loop passes over: the system messages, and of the others
\* those that are not relevant.
MutSkips(msg) == ~_is_event_relevant(msg.content)
Skips(msg) == _is_system_message(msg) \/ ~_is_event_relevant(msg.content)

\* for msg in messages: skip the system messages and the messages that are
\* not relevant, keep the event of a message when it is confident enough.
RECURSIVE ExtractLoop(_, _)
ExtractLoop(messages, outcomes) ==
    IF messages = <<>> THEN outcomes
    ELSE IF Skips(Head(messages))
    THEN ExtractLoop(Tail(messages), outcomes)
    ELSE ExtractLoop(Tail(messages),
                     UNION {AppendIf(outcomes, event) :
                                event \in {_extract_event(Head(messages))}})

\* The lists of events extract_events may return: one list, or two when a
\* confidence is 0.3 up to rounding.
extract_events(messages) == ExtractLoop(messages, {<<>>})

(***************************************************************************)
(* The extractor at work on one message                                    *)
(***************************************************************************)

\* Longest text handed to an extractor, in phrases.
MaxPhrases == 3

\* The message before any text is written into it.
EmptyMessage == Message(DateTime(20260116, 13, 32, 0, 0), <<"A">>, <<>>, FALSE)

\* The text with one more phrase, a blank between phrases.
Join(text, phrase) == IF text = <<>> THEN phrase ELSE text \o <<" ">> \o phrase

ExtractIdle ==
    /\ message = EmptyMessage
    /\ written = 0
    /\ call = "none"
    /\ ret = <<>>

\* The message with one more phrase in its text.
WithPhrase(msg, phrase) == [msg EXCEPT !.content = Join(@, phrase)]

\* The phrases the time extractors are run on.
TimePhrases ==
    {<<"1", "0", ":", "0", "0", "-", "2", "5", ":", "0", "0">>,
     <<"1", "0", ":", "0", "0", " ", "-", " ", "1", "2", ":", "0", "0">>,
     <<"U", "h", "r">>,
     <<"T", "r", "a", "i", "n", "i", "n", "g">>,
     <<"B", "e", "g", "i", "n", "n", ":", " ", "2", "5", ":", "0", "0">>,
     <<"E", "n", "d", "e", " ", "1", "3", ".", "3", "0">>,
     <<"a", "b", " ", "3", "1">>,
     <<"clock", " ", "9">>,
     <<"1", "1", "-", "1", "4">>}

\* One more phrase in the text of the message.
AppendTimePhrase ==
    /\ call = "none"
    /\ written < MaxPhrases
    /\ \E phrase \in TimePhrases : message' = WithPhrase(message, phrase)
    /\ written' = written + 1
    /\ UNCHANGED <<call, ret>>
    /\ UNCHANGED notExtractVars

\* FootballEventExtractor()._extract_time(text)
ExtractTime ==
    /\ call = "none"
    /\ call' = "_extract_time"
    /\ ret' = _extract_time(message.content)
    /\ UNCHANGED <<message, written>>
    /\ UNCHANGED notExtractVars

\* extract_time(text) of src/extractor.py
ExtractTimeLegacy ==
    /\ call = "none"
    /\ call' = "extract_time"
    /\ ret' = extract_time(message.content)
    /\ UNCHANGED <<message, written>>
    /\ UNCHANGED notExtractVars

TimeNext == AppendTimePhrase \/ ExtractTime \/ ExtractTimeLegacy

\* Longest text handed to the date extractor, in phrases.
MaxDatePhrases == 2

\* The phrases the date extractor is run on: 12.05.2026, 31.02.2026, 29. Feb,
\* 27. Maerz, am 3.1., naechsten Freitag, diesen Freitag, kommenden Montag
\* and 29/10/22.
DatePhrases ==
    {<<"1", "2", ".", "0", "5", ".", "2", "0", "2", "6">>,
     <<"3", "1", ".", "0", "2", ".", "2", "0", "2", "6">>,
     <<"2", "9", ".", " ", "F", "e", "b">>,
     <<"2", "7", ".", " ", "M", "ae", "r", "z">>,
     <<"a", "m", " ", "3", ".", "1", ".">>,
     <<"n", "ae", "c", "h", "s", "t", "e", "n", " ", "F", "r", "e", "i",
       "t", "a", "g">>,
     <<"d", "i", "e", "s", "e", "n", " ", "F", "r", "e", "i", "t", "a",
       "g">>,
     <<"k", "o", "m", "m", "e", "n", "d", "e", "n", " ", "M", "o", "n",
       "t", "a", "g">>,
     <<"2", "9", "/", "1", "0", "/", "2", "2">>}

\* The timestamps of the messages: a Friday, a Wednesday at the end of the
\* year, a Monday of a leap year and a Saturday, the last day of a February.
MessageStamps ==
    {DateTime(20260116, 13, 32, 0, 0), DateTime(20261230, 9, 0, 0, 0),
     DateTime(20280110, 9, 0, 0, 0), DateTime(20260228, 9, 0, 0, 0)}

\* The message carries the timestamp of its header line.
StampMessage ==
    /\ call = "none"
    /\ written = 0
    /\ message = EmptyMessage
    /\ \E ts \in MessageStamps \ {EmptyMessage.timestamp} :
          message' = [message EXCEPT !.timestamp = ts]
    /\ UNCHANGED <<written, call, ret>>
    /\ UNCHANGED notExtractVars

\* One more phrase in the text of the message.
AppendDatePhrase ==
    /\ call = "none"
    /\ written < MaxDatePhrases
    /\ \E phrase \in DatePhrases : message' = WithPhrase(message, phrase)
    /\ written' = written + 1
    /\ UNCHANGED <<call, ret>>
    /\ UNCHANGED notExtractVars

\* FootballEventExtractor()._extract_date(msg.content, msg.timestamp)
ExtractDate ==
    /\ call = "none"
    /\ call' = "_extract_date"
    /\ ret' = _extract_date(message.content, message.timestamp)
    /\ UNCHANGED <<message, written>>
    /\ UNCHANGED notExtractVars

\* The dates added to a text: 27. Maerz and 12.05.2026, each a date of the
\* calendar whatever the time of the message.
AddedDates ==
    {<<"2", "7", ".", " ", "M", "ae", "r", "z">>,
     <<"1", "2", ".", "0", "5", ".", "2", "0", "2", "6">>}

\* The same message with a valid date more in its text, in front or at the
\* end, and _extract_date called on it; `without` keeps the confidence the
\* text had without that date.
AddDate ==
    /\ call = "_extract_date"
    /\ written < MaxDatePhrases
    /\ \E phrase \in AddedDates, in_front \in BOOLEAN :
          LET text == IF in_front THEN Join(phrase, message.content)
                      ELSE Join(message.content, phrase)
              again == _extract_date(text, message.timestamp)
          IN  /\ message' = [message EXCEPT !.content = text]
              /\ ret' = [date |-> again.date, matched |-> again.matched,
                         conf |-> again.conf, without |-> ret.conf]
    /\ written' = written + 1
    /\ call' = "add_date"
    /\ UNCHANGED notExtractVars

DateNext == StampMessage \/ AppendDatePhrase \/ ExtractDate \/ AddDate

\* The phrases the play-format extractor is run on: 6+1, 9+1, 5+2,
\* Spielmodus:, Format: 4 vs 4, 9 gegen 9, Funino and 16+1.
FormatPhrases ==
    {<<"6", "+", "1">>,
     <<"9", "+", "1">>,
     <<"5", "+", "2">>,
     <<"S", "p", "i", "e", "l", "m", "o", "d", "u", "s", ":">>,
     <<"F", "o", "r", "m", "a", "t", ":", " ", "4", " ", "v", "s", " ",
       "4">>,
     <<"9", " ", "g", "e", "g", "e", "n", " ", "9">>,
     <<"F", "u", "n", "i", "n", "o">>,
     <<"1", "6", "+", "1">>}

\* One more phrase in the text of the message.
AppendFormatPhrase ==
    /\ call = "none"
    /\ written < MaxPhrases
    /\ \E phrase \in FormatPhrases : message' = WithPhrase(message, phrase)
    /\ written' = written + 1
    /\ UNCHANGED <<call, ret>>
    /\ UNCHANGED notExtractVars

\* FootballEventExtractor()._extract_play_format(msg.content)
ExtractPlayFormat ==
    /\ call = "none"
    /\ call' = "_extract_play_format"
    /\ ret' = _extract_play_format(message.content)
    /\ UNCHANGED <<message, written>>
    /\ UNCHANGED notExtractVars

FormatNext == AppendFormatPhrase \/ ExtractPlayFormat

\* Longest text of a message handed to extract_events, in phrases.
MaxWords == 2

\* The phrases of the messages events are extracted from.
EventPhrases ==
    {<<"T", "u", "r", "n", "i", "e", "r">>,
     <<"1", "2", ".", "0", "5", ".", "2", "0", "2", "6", " ", "1", "0", ":",
         "0", "0", " ", "-", " ", "1", "2", ":", "0", "0">>,
     <<"1", "0", ":", "0", "0", " ", "-", " ", "1", "2", ":", "0", "0">>,
     <<"A", "n", "n", "a", " ", "l", "e", "f", "t">>,
     <<"E", "-", "J", "u", "g", "e", "n", "d", " ", "6", "+", "1", " ", "s",
         "p", "i", "e", "l", "s", "t", "a", "r", "k">>,
     <<"F", "C", " ", "U", "n", "i", "o", "n", " ", "S", "p", "i", "e", "l",
         "o", "r", "t", ":", " ", "H", "a", "l", "l", "e">>}

\* The message before the one under extraction in the list of messages.
Announcement ==
    Message(DateTime(20260115, 9, 0, 0, 0), <<"B">>, <<"T", "u", "r", "n",
        "i", "e", "r", " ", "1", "2", ".", "0", "5", ".", "2", "0", "2",
        "6">>, FALSE)

AppendEventPhrase ==
    /\ call = "none"
    /\ written < MaxWords
    /\ \E phrase \in EventPhrases : message' = WithPhrase(message, phrase)
    /\ written' = written + 1
    /\ UNCHANGED <<call, ret>>
    /\ UNCHANGED notExtractVars

\* FootballEventExtractor()._is_system_message(msg)
IsSystemMessage ==
    /\ call = "none"
    /\ call' = "_is_system_message"
    /\ ret' = _is_system_message(message)
    /\ UNCHANGED <<message, written>>
    /\ UNCHANGED notExtractVars

\* FootballEventExtractor()._is_event_relevant(msg.content)
IsEventRelevant ==
    /\ call = "none"
    /\ call' = "_is_event_relevant"
    /\ ret' = _is_event_relevant(message.content)
    /\ UNCHANGED <<message, written>>
    /\ UNCHANGED notExtractVars

\* FootballEventExtractor()._extract_event(msg)
ExtractEvent ==
    /\ call = "none"
    /\ call' = "_extract_event"
    /\ ret' = _extract_event(message)
    /\ UNCHANGED <<message, written>>
    /\ UNCHANGED notExtractVars

\* FootballEventExtractor().extract_events([announcement, msg])
ExtractEvents ==
    /\ call = "none"
    /\ call' = "extract_events"
    /\ ret' \in extract_events(<<Announcement, message>>)
    /\ UNCHANGED <<message, written>>
    /\ UNCHANGED notExtractVars

EventsNext ==
    AppendEventPhrase \/ IsSystemMessage \/ IsEventRelevant \/ ExtractEvent
        \/ ExtractEvents

(***************************************************************************)
(* Opening the event store: EventDatabase.__init__ / _load                 *)
(* (src/extractor.py)                                                      *)
(***************************************************************************)

\* Largest number of elements written into the store file.
MaxRecords == 2

\* What json.load finds in the file, by its top-level shape: "invalid" is
\* text that is not JSON (empty, truncated, garbage), "list", "object" and
\* "string" are the JSON values Python iterates over (a list's elements, an
\* object's keys, a string's characters), "scalar" is a number, true, false
\* or null.  items are the elements that iteration yields.
JsonFile(kind, items) == [exists |-> TRUE, kind |-> kind, items |-> items]

\* No file at db_path.
NoFile == [exists |-> FALSE, kind |-> "invalid", items |-> <<>>]

\* The elements of a JSON list: the dict of a stored event ("event"), such a
\* dict with a required key left out ("missing_key"), with a key Event does
\* not have ("extra_key"), with a date that is no ISO date ("bad_date"), and
\* an element that is no dict at all ("text").  The keys of an object and the
\* characters of a string are "text".
Item(kind, event) == [kind |-> kind, event |-> event]
ListItems ==
    {Item("event", e) : e \in DbEvents}
    \cup {Item(k, BaseEvent) : k \in {"missing_key", "extra_key", "bad_date", "text"}}
TextItem == Item("text", BaseEvent)

\* Event.from_dict(event_data) called by _load: the exception it raises,
\* "none" when it returns the event.
FromDictError(item) ==
    CASE item.kind = "text" -> "AttributeError"
      [] item.kind = "bad_date" -> "ValueError"
      [] item.kind \in {"missing_key", "extra_key"} -> "TypeError"
      [] OTHER -> "none"

\* for event_data in data: ... self.events[event.id] = event
RECURSIVE LoadLoop(_, _, _)
LoadLoop(items, i, evs) ==
    IF i > Len(items) THEN [events |-> evs, error |-> "none"]
    ELSE IF FromDictError(items[i]) # "none"
         THEN [events |-> evs, error |-> FromDictError(items[i])]
    ELSE LoadLoop(items, i + 1, SetItem(evs, items[i].event))

\* EventDatabase._load: self.events afterwards and the exception that left
\* the constructor, "none" when it returned.
_load(file) ==
    IF ~file.exists THEN [events |-> <<>>, error |-> "none"]
    ELSE IF file.kind = "invalid" THEN [events |-> <<>>, error |-> "JSONDecodeError"]
    ELSE IF file.kind = "scalar" THEN [events |-> <<>>, error |-> "TypeError"]
    ELSE LoadLoop(file.items, 1, <<>>)

LoadIdle ==
    /\ db_file = NoFile
    /\ db_open = "none"

\* Something writes a file at db_path.
WriteFile ==
    /\ db_open = "none"
    /\ ~db_file.exists
    /\ \E kind \in {"invalid", "list", "object", "string", "scalar"} :
          db_file' = JsonFile(kind, <<>>)
    /\ UNCHANGED <<db_open, db_events>>
    /\ UNCHANGED notLoadVars

\* The file gets one more element: a list any element, an object one more
\* key, a string one more character.
WriteItem ==
    /\ db_open = "none"
    /\ db_file.exists
    /\ db_file.kind \in {"list", "object", "string"}
    /\ Len(db_file.items) < MaxRecords
    /\ \E item \in (IF db_file.kind = "list" THEN ListItems ELSE {TextItem}) :
          db_file' = [db_file EXCEPT !.items = Append(@, item)]
    /\ UNCHANGED <<db_open, db_events>>
    /\ UNCHANGED notLoadVars

\* db = EventDatabase(db_path)
Open ==
    /\ db_open = "none"
    /\ LET r == _load(db_file)
       IN  /\ db_events' = r.events
           /\ db_open' = IF r.error = "none" THEN "loaded" ELSE r.error
    /\ UNCHANGED db_file
    /\ UNCHANGED notLoadVars

LoadNext == WriteFile \/ WriteItem \/ Open

(***************************************************************************)
(* EventDeduplicator                                                       *)
(***************************************************************************)

\* Largest input list the deduplicator is run on.
MaxEvents == 3

\* Number of leading organizer characters that enter the similarity key.
PrefixLen == 15

FCBorussiaBerlin ==
    <<"F","C"," ","B","o","r","u","s","s","i","a"," ","B","e","r","l","i","n">>
FCBorussiaBerlinSpace == FCBorussiaBerlin \o <<" ">>
FCUnion == <<"F","C"," ","U","n","i","o","n">>

Organizers == {FCBorussiaBerlin, FCBorussiaBerlinSpace, FCUnion}
EventDates == {None, "2026-01-25"}
EventTypes == {"tournament", "friendly_match"}
Confidences == {60, 80}

\* The fields of ExtractedEvent the deduplicator reads; raw_message tells
\* apart two events that agree on every other field.
ExtractedEvent(raw, d, org, t, c) ==
    [raw_message |-> raw, date |-> d, organizer |-> org, event_type |-> t,
     confidence |-> c]

\* organizer[:15]
MutSimilarityPrefix(org) == org
SimilarityPrefix(org) == SubSeq(org, 1, Min(PrefixLen, Len(org)))

\* f"{event.date}|{organizer[:15] if organizer else ''}|{event.event_type}"
SimilarityKey(event) ==
    <<event.date>> \o <<"|">>
        \o (IF event.organizer # <<>> THEN SimilarityPrefix(event.organizer) ELSE <<>>)
        \o <<"|">> \o <<event.event_type>>

\* The dict `seen`: its keys in insertion order and its key -> event map.
EmptySeen == [keys |-> <<>>, val |-> <<>>]

SeenIndex(seen, key) ==
    IF \E j \in 1..Len(seen.keys) : seen.keys[j] = key
    THEN CHOOSE j \in 1..Len(seen.keys) : seen.keys[j] = key
    ELSE 0

\* One iteration of the loop of deduplicate().
MutDedupStep(seen, event) ==
    LET key == SimilarityKey(event)
        j == SeenIndex(seen, key)
    IN  IF j # 0
        THEN IF event.confidence >= seen.val[j].confidence
             THEN [seen EXCEPT !.val[j] = event]
             ELSE seen
        ELSE [keys |-> Append(seen.keys, key), val |-> Append(seen.val, event)]
DedupStep(seen, event) ==
    LET key == SimilarityKey(event)
        j == SeenIndex(seen, key)
    IN  IF j # 0
        THEN IF event.confidence > seen.val[j].confidence
             THEN [seen EXCEPT !.val[j] = event]
             ELSE seen
        ELSE [keys |-> Append(seen.keys, key), val |-> Append(seen.val, event)]

RECURSIVE DedupLoop(_, _, _)
DedupLoop(evs, i, seen) ==
    IF i > Len(evs) THEN seen
    ELSE DedupLoop(evs, i + 1, DedupStep(seen, evs[i]))

\* list(seen.values())
MutSeenValues(seen) == Reverse(seen.val)
SeenValues(seen) == seen.val

deduplicate(evs) == SeenValues(DedupLoop(evs, 1, EmptySeen))

DedupIdle ==
    /\ events = <<>>
    /\ deduped = <<>>
    /\ rededuped = <<>>
    /\ passes = 0

\* The caller hands one more extracted event to the list.
AppendEvent ==
    /\ passes = 0
    /\ Len(events) < MaxEvents
    /\ \E d \in EventDates, org \in Organizers, t \in EventTypes, c \in Confidences :
          events' = Append(events, ExtractedEvent(Len(events) + 1, d, org, t, c))
    /\ UNCHANGED <<deduped, rededuped, passes>>
    /\ UNCHANGED notDedupVars

\* events = deduplicator.deduplicate(events)
Deduplicate ==
    /\ passes = 0
    /\ deduped' = deduplicate(events)
    /\ passes' = 1
    /\ UNCHANGED <<events, rededuped>>
    /\ UNCHANGED notDedupVars

\* A second call on the first call's result.
DeduplicateAgain ==
    /\ passes = 1
    /\ rededuped' = deduplicate(deduped)
    /\ passes' = 2
    /\ UNCHANGED <<events, deduped>>
    /\ UNCHANGED notDedupVars

DedupNext == AppendEvent \/ Deduplicate \/ DeduplicateAgain

(***************************************************************************)
(* Calendar entries                                                        *)
(*                                                                         *)
(* Two functions turn an Event into the body of a Google Calendar event:   *)
(* event_to_calendar_event of src/calendar_sync.py and                     *)
(* create_calendar_event of sync_to_calendar.py.  Of the body the model    *)
(* keeps 'start' and 'end': kind "dateTime" with the two strings           *)
(* YYYY-MM-DDTHH:MM:00, or kind "date" with two dates.  Of the Event it    *)
(* keeps the fields the two strings are built from.                        *)
(***************************************************************************)

\* The minutes a start time is given with.
StartMinutes == {0, 30, 59}

\* f"{h:02d}:{m:02d}"
ClockTime(h, m) == ZeroPadded(h, 2) \o <<":">> \o ZeroPadded(m, 2)

CalendarEvent(id, d, type, start, end) ==
    [id |-> id, date |-> d, event_type |-> type, time_start |-> start, time_end |-> end]

\* time.split(':'), a time being "HH:MM".
SplitTime(time) ==
    LET colon == CHOOSE k \in 1..Len(time) : time[k] = ":"
    IN  <<SubSeq(time, 1, colon - 1), SubSeq(time, colon + 1, Len(time))>>

Seconds == <<":", "0", "0">>

TimedEntry(start_dt, end_dt) == [kind |-> "dateTime", start |-> start_dt, end |-> end_dt]
AllDayEntry(d) == [kind |-> "date", start |-> d, end |-> d]
NoEntry == [kind |-> None, start |-> <<>>, end |-> <<>>]

\* event_to_calendar_event(event) of src/calendar_sync.py: None without a
\* date; the end time, when the event has none, is the start time plus 3
\* hours for a tournament and 2 otherwise, the hour capped at 23.
event_to_calendar_event(event) ==
    IF event.date = NoneInt THEN NoEntry
    ELSE LET start_time == IF Truthy(event.time_start) THEN event.time_start
                           ELSE <<"1", "0", ":", "0", "0">>
             start_h == ParseInt(SplitTime(start_time)[1])
             start_m == ParseInt(SplitTime(start_time)[2])
             duration == IF event.event_type = "tournament" THEN 3 ELSE 2
             end_h == IF start_h + duration >= 24 THEN 23 ELSE start_h + duration
             end_time == IF Truthy(event.time_end) THEN event.time_end
                         ELSE ClockTime(end_h, start_m)
         IN  TimedEntry(IsoDate(event.date) \o <<"T">> \o start_time \o Seconds,
                        IsoDate(event.date) \o <<"T">> \o end_time \o Seconds)

\* create_calendar_event(event) of sync_to_calendar.py: the end, when the
\* event has none, is the start hour plus 2 and minute 00.
create_calendar_event(event) ==
    LET date_str == IsoDate(event.date)
        end_hour == ParseInt(SplitTime(event.time_start)[1]) + 2
    IN  IF ~Truthy(event.time_start) THEN AllDayEntry(date_str)
        ELSE IF Truthy(event.time_end)
        THEN TimedEntry(date_str \o <<"T">> \o event.time_start \o Seconds,
                        date_str \o <<"T">> \o event.time_end \o Seconds)
        ELSE TimedEntry(date_str \o <<"T">> \o event.time_start \o Seconds,
                        date_str \o <<"T">> \o ZeroPadded(end_hour, 2)
                            \o <<":", "0", "0">> \o Seconds)

EntryIdle ==
    /\ entry_event = CalendarEvent(1, 20260125, "friendly_match", NoneStr, NoneStr)
    /\ entry_call = "none"
    /\ entry = NoEntry

\* The event gets a start time.
SetTimeStart ==
    /\ entry_call = "none"
    /\ \E h \in 0..23, m \in StartMinutes :
           entry_event' = [entry_event EXCEPT !.time_start = ClockTime(h, m)]
    /\ UNCHANGED <<entry_call, entry>>
    /\ UNCHANGED notEntryVars

\* The event gets an end time.
SetTimeEnd ==
    /\ entry_call = "none"
    /\ entry_event.time_start # NoneStr
    /\ entry_event.time_end = NoneStr
    /\ \E h \in {12, 23} : entry_event' = [entry_event EXCEPT !.time_end = ClockTime(h, 0)]
    /\ UNCHANGED <<entry_call, entry>>
    /\ UNCHANGED notEntryVars

\* The event is a tournament.
SetTournament ==
    /\ entry_call = "none"
    /\ entry_event.event_type # "tournament"
    /\ entry_event' = [entry_event EXCEPT !.event_type = "tournament"]
    /\ UNCHANGED <<entry_call, entry>>
    /\ UNCHANGED notEntryVars

\* calendar_event = event_to_calendar_event(event)
EventToCalendarEvent ==
    /\ entry_call = "none"
    /\ entry_call' = "event_to_calendar_event"
    /\ entry' = event_to_calendar_event(entry_event)
    /\ UNCHANGED entry_event
    /\ UNCHANGED notEntryVars

\* cal_event = create_calendar_event(event)
CreateCalendarEvent ==
    /\ entry_call = "none"
    /\ entry_call' = "create_calendar_event"
    /\ entry' = create_calendar_event(entry_event)
    /\ UNCHANGED entry_event
    /\ UNCHANGED notEntryVars

EntryNext ==
    SetTimeStart \/ SetTimeEnd \/ SetTournament \/ EventToCalendarEvent
        \/ CreateCalendarEvent

(***************************************************************************)
(* Calendar sync                                                           *)
(*                                                                         *)
(* sync_events_to_calendar of src/calendar_sync.py.  The Google calendar   *)
(* is the set of the event ids (extendedProperties.private.eventId) of its *)
(* entries.  Each API call of a run ends in one of the ways the code tells *)
(* apart: it returns, it raises HttpError, or it raises another exception. *)
(***************************************************************************)

\* Longest list of events that is synced.
MaxSyncEvents == 3

SyncIds == {1, 2}

\* How the API calls made for one event end: all return; the list call of
\* check_event_exists raises HttpError; the insert or update call raises
\* HttpError; one of the calls raises another exception.
ApiOutcomes == {"ok", "list_http_error", "write_http_error", "error"}

\* The status messages; "Hinzugefuegt" is "Hinzugef{ue}gt".
Hinzugefuegt == "Hinzugefuegt"
Aktualisiert == "Aktualisiert"
BereitsVorhanden == "Bereits vorhanden"
KeinDatum == "Kein Datum"
ApiFehler == "API-Fehler: reason"
Fehler == "Fehler: str(e)"

\* check_event_exists(service, calendar_id, event_id): the id of the entry,
\* None when there is none and when the list call raised HttpError. 0 is
\* None.
check_event_exists(cal, event_id, api) ==
    IF api = "list_http_error" THEN 0
    ELSE IF event_id \in cal THEN event_id ELSE 0

\* sync_event_to_calendar(service, calendar_id, event, update_existing):
\* the status message and the calendar after the call.
sync_event_to_calendar(cal, event, update_existing, api) ==
    IF event.date = NoneInt THEN [status |-> KeinDatum, calendar |-> cal]
    ELSE IF event_to_calendar_event(event) = NoEntry
    THEN [status |-> "Konvertierung fehlgeschlagen", calendar |-> cal]
    ELSE IF api = "error" THEN [status |-> Fehler, calendar |-> cal]
    ELSE IF check_event_exists(cal, event.id, api) # 0
    THEN IF update_existing
         THEN IF api = "write_http_error"
              THEN [status |-> ApiFehler, calendar |-> cal]
              ELSE [status |-> Aktualisiert, calendar |-> cal]
         ELSE [status |-> BereitsVorhanden, calendar |-> cal]
    ELSE IF api = "write_http_error" THEN [status |-> ApiFehler, calendar |-> cal]
    ELSE [status |-> Hinzugefuegt, calendar |-> cal \cup {event.id}]

NewResults ==
    [success |-> TRUE, added |-> 0, updated |-> 0, skipped |-> 0, failed |-> 0,
     details |-> <<>>]
AuthFailed ==
    [success |-> FALSE, added |-> 0, updated |-> 0, skipped |-> 0, failed |-> 0,
     details |-> <<>>]

\* The if/elif chain on the status in the loop of sync_events_to_calendar.
MutCountStatus(results, status) ==
    IF status = Hinzugefuegt THEN [results EXCEPT !.added = @ + 1]
    ELSE IF status = Aktualisiert THEN [results EXCEPT !.updated = @ + 1]
    ELSE IF status = BereitsVorhanden THEN [results EXCEPT !.skipped = @ + 1]
    ELSE IF status = KeinDatum THEN results
    ELSE [results EXCEPT !.failed = @ + 1]
CountStatus(results, status) ==
    IF status = Hinzugefuegt THEN [results EXCEPT !.added = @ + 1]
    ELSE IF status = Aktualisiert THEN [results EXCEPT !.updated = @ + 1]
    ELSE IF status = BereitsVorhanden THEN [results EXCEPT !.skipped = @ + 1]
    ELSE IF status = KeinDatum THEN [results EXCEPT !.skipped = @ + 1]
    ELSE [results EXCEPT !.failed = @ + 1]

\* for event in events: ... of sync_events_to_calendar, from event i on.
RECURSIVE SyncLoop(_, _, _, _, _, _)
SyncLoop(evs, i, cal, results, update_existing, api) ==
    IF i > Len(evs) THEN [results |-> results, calendar |-> cal]
    ELSE LET synced == sync_event_to_calendar(cal, evs[i], update_existing, api[i])
         IN  SyncLoop(evs, i + 1, synced.calendar,
                      CountStatus([results EXCEPT !.details = Append(@, synced.status)],
                                  synced.status),
                      update_existing, api)

sync_events_to_calendar(evs, cal, update_existing, api) ==
    SyncLoop(evs, 1, cal, NewResults, update_existing, api)

CalSyncIdle ==
    /\ sync_events = <<>>
    /\ calendar = {}
    /\ sync_results = AuthFailed
    /\ sync_pc = "idle"

CalSyncInit ==
    /\ sync_events = <<>>
    /\ calendar = {}
    /\ sync_results = AuthFailed
    /\ sync_pc = "input"

\* One more event in the list, with or without a date.
AppendSyncEvent ==
    /\ sync_pc = "input"
    /\ Len(sync_events) < MaxSyncEvents
    /\ \E id \in SyncIds, d \in {NoneInt, 20260125} :
           sync_events' = Append(sync_events,
                                 CalendarEvent(id, d, "tournament", NoneStr, NoneStr))
    /\ UNCHANGED <<calendar, sync_results, sync_pc>>
    /\ UNCHANGED notCalSyncVars

\* The calendar holds an entry for an event already.
ExistingEntry ==
    /\ sync_pc = "input"
    /\ \E id \in SyncIds \ calendar : calendar' = calendar \cup {id}
    /\ UNCHANGED <<sync_events, sync_results, sync_pc>>
    /\ UNCHANGED notCalSyncVars

\* results = sync_events_to_calendar(events, update_existing=...): the
\* connection to the calendar was made.
SyncEventsToCalendar ==
    /\ sync_pc = "input"
    /\ \E update_existing \in BOOLEAN, api \in [1..Len(sync_events) -> ApiOutcomes] :
           \E done \in {sync_events_to_calendar(sync_events, calendar, update_existing, api)} :
               /\ sync_results' = done.results
               /\ calendar' = done.calendar
    /\ sync_pc' = "done"
    /\ UNCHANGED sync_events
    /\ UNCHANGED notCalSyncVars

\* get_calendar_service() or find_or_create_calendar(...) raised.
SyncAuthFailed ==
    /\ sync_pc = "input"
    /\ sync_results' = AuthFailed
    /\ sync_pc' = "done"
    /\ UNCHANGED <<sync_events, calendar>>
    /\ UNCHANGED notCalSyncVars

CalSyncNext == AppendSyncEvent \/ ExistingEntry \/ SyncEventsToCalendar \/ SyncAuthFailed

(***************************************************************************)
(* Saving and reopening the event store: EventDatabase.add / update /      *)
(* save / _load (src/extractor.py)                                         *)
(*                                                                         *)
(* save() writes the list of the to_dict() of the stored events with       *)
(* json.dump, _load reads it back with json.load: a dict of to_dict holds  *)
(* texts, numbers, booleans and None only, which JSON writes and reads     *)
(* back as they are, so the file is the list of those dicts.               *)
(***************************************************************************)

\* The events the callers store: two ids, each with and without a date,
\* with and without a source timestamp.
PersistEvents ==
    {[Event(d, NineOClock, Berlin, 5, 20, ts) EXCEPT !.id = id] :
        id \in {<<"1">>, <<"2">>},
        d \in {NoneInt, 20260125},
        ts \in {NoneDateTime, DateTime(20261102, 2, 26, 4, 509237)}}

\* EventDatabase.update: self.events[event.id] = event
update(evs, event) == SetItem(evs, event)

\* EventDatabase.save: data = [e.to_dict() for e in self.events.values()]
MutSave(evs) ==
    JsonFile("list", [k \in 1..Len(SelectSeq(evs, LAMBDA e : e.date # NoneInt)) |->
                          to_dict(SelectSeq(evs, LAMBDA e : e.date # NoneInt)[k])])
save(evs) == JsonFile("list", [k \in 1..Len(evs) |-> to_dict(evs[k])])

\* What _load makes of the file save() wrote: Event.from_dict of each dict.
FromDicts(file) ==
    [file EXCEPT !.items = [k \in 1..Len(file.items) |->
                               Item("event", from_dict(file.items[k]))]]

PersistIdle ==
    /\ mem = <<>>
    /\ disk = NoFile
    /\ at_save = <<>>
    /\ reopened = <<>>
    /\ persist_pc = "idle"

\* db = EventDatabase(db_path) on a path with no file.
PersistInit ==
    /\ mem = <<>>
    /\ disk = NoFile
    /\ at_save = <<>>
    /\ reopened = <<>>
    /\ persist_pc = "open"

\* db.add(event)
PersistAdd ==
    /\ persist_pc \in {"open", "saved"}
    /\ \E event \in PersistEvents : mem' = add(mem, event).events
    /\ persist_pc' = "open"
    /\ UNCHANGED <<disk, at_save, reopened>>
    /\ UNCHANGED notPersistVars

\* db.update(event)
PersistUpdate ==
    /\ persist_pc \in {"open", "saved"}
    /\ \E event \in PersistEvents : mem' = update(mem, event)
    /\ persist_pc' = "open"
    /\ UNCHANGED <<disk, at_save, reopened>>
    /\ UNCHANGED notPersistVars

\* db.save()
PersistSave ==
    /\ persist_pc = "open"
    /\ disk' = save(mem)
    /\ at_save' = mem
    /\ persist_pc' = "saved"
    /\ UNCHANGED <<mem, reopened>>
    /\ UNCHANGED notPersistVars

\* EventDatabase(db_path), a new object on the same path, right after save().
PersistReopen ==
    /\ persist_pc = "saved"
    /\ reopened' = _load(FromDicts(disk)).events
    /\ persist_pc' = "reopened"
    /\ UNCHANGED <<mem, disk, at_save>>
    /\ UNCHANGED notPersistVars

PersistNext == PersistAdd \/ PersistUpdate \/ PersistSave \/ PersistReopen

(***************************************************************************)
(* The quick analyzer's duplicate check (quick_analyze.py)                 *)
(*                                                                         *)
(* A run posts one message per new event to the notify group and, unless   *)
(* --force is given, takes for new the events whose key is not among the   *)
(* keys it reads out of the messages posted within the look-back window.   *)
(* A message of the group is its text and whether its timestamp is within  *)
(* the window (a timestamp that cannot be parsed counts as within).        *)
(***************************************************************************)

\* Longest list of events an analysis finds.
MaxQuickEvents == 2

\* Number of runs.
MaxRuns == 2

\* date.strftime("%d.%m.%Y")
strftime_dmY(d) ==
    ZeroPadded(DayOf(d), 2) \o <<".">> \o ZeroPadded(MonthOf(d), 2) \o <<".">>
        \o ZeroPadded(YearOf(d), 4)

\* get_event_key(event)
get_event_key(event) ==
    LET date_str == IF event.date # NoneInt THEN strftime_dmY(event.date)
                    ELSE <<"u", "n", "k", "n", "o", "w", "n">>
        org == replace(replace(strip(Lower(event.organizer)), <<".">>, <<>>),
                       <<" ">>, <<>>)
    IN  date_str \o <<"|">> \o org

\* r'\*(\d{2}\.\d{2}\.\d{4})\*'
posted_date_pattern ==
    Cat(<<Text(<<"*">>), Group(1, Cat(<<Rep(Chars(Digit), 2, 2),
        Text(<<".">>), Rep(Chars(Digit), 2, 2), Text(<<".">>),
        Rep(Chars(Digit), 4, 4)>>)), Text(<<"*">>)>>)

\* r'[{trophy}{soccer}]\s+\*([^*]+)\*'
posted_org_pattern ==
    Cat(<<Chars({"soccer", "trophy"}), Plus(Chars(Space)), Text(<<"*">>),
        Group(1, Plus(Chars(Alphabet \ {"*"}))), Text(<<"*">>)>>)

weekdays_de ==
    <<<<"M", "o", "n", "t", "a", "g">>, <<"D", "i", "e", "n", "s", "t", "a", "g">>, <<"M", "i", "t", "t", "w", "o", "c", "h">>, <<"D", "o", "n", "n", "e", "r", "s", "t", "a", "g">>, <<"F", "r", "e", "i", "t", "a", "g">>, <<"S", "a", "m", "s", "t", "a", "g">>, <<"S", "o", "n", "n", "t", "a", "g">>>>

\* "\n".join(lines)
RECURSIVE JoinLines(_)
JoinLines(ls) ==
    IF ls = <<>> THEN <<>>
    ELSE IF Len(ls) = 1 THEN ls[1]
    ELSE ls[1] \o <<"\n">> \o JoinLines(Tail(ls))

\* str.lstrip("-")
RECURSIVE LStripDash(_)
LStripDash(text) ==
    IF text # <<>> /\ Head(text) = "-" THEN LStripDash(Tail(text)) ELSE text

\* text[:n] + "..." if len(text) > n else text
Shortened(text, n) ==
    IF Len(text) > n THEN SubSeq(text, 1, n) \o <<".", ".", ".">> ELSE text

\* The lines of the message of one event, as format_event_messages builds
\* them.
EventLines(e) ==
    LET header == IF e.date # NoneInt
                  THEN <<"*">> \o strftime_dmY(e.date) \o <<"*", " ", "_", "(">>
                           \o weekdays_de[weekday(e.date) + 1] \o <<")", "_">>
                  ELSE <<"*", "D", "a", "t", "u", "m", " ", "u", "n", "b", "e", "k", "a", "n", "n", "t", "*">>
        icon == IF e.event_type = "tournament" THEN "trophy" ELSE "soccer"
        org == IF Truthy(e.organizer) THEN e.organizer ELSE <<"U", "n", "b", "e", "k", "a", "n", "n", "t">>
        time_str == IF Truthy(e.time_end)
                    THEN e.time_start \o <<" ", "-", " ">> \o e.time_end
                    ELSE e.time_start
        loc == Shortened(strip(LStripDash(strip(e.location))), 50)
        addr == strip(LStripDash(strip(e.address)))
        loc_clean == Lower(strip(LStripDash(strip(e.location))))
        phone == IF SubSeq(e.contact_phone, 1, 3) = <<"+", "4", "9">>
                 THEN replace(e.contact_phone, <<"+", "4", "9">>, <<"+", "4", "9", " ">>)
                 ELSE e.contact_phone
    IN  <<header, <<icon, " ", " ", "*">> \o org \o <<"*">>>>
            \o (IF Truthy(e.time_start) THEN <<<<"alarm", " ", " ">> \o time_str>>
                ELSE <<>>)
            \o (IF Truthy(e.location) /\ loc # <<>> THEN <<<<"pin", " ", " ">> \o loc>>
                ELSE <<>>)
            \o (IF Truthy(e.address) /\ addr # <<>> /\ Lower(addr) # loc_clean
                       /\ ~Contains(Lower(addr), loc_clean)
                THEN <<<<" ", " ", " ", " ">> \o Shortened(addr, 60)>> ELSE <<>>)
            \o (IF Truthy(e.contact_phone) /\ ~Contains(<<"@">>, e.contact_phone)
                THEN <<<<"phone", " ", " ">> \o phone>> ELSE <<>>)
            \o (IF Truthy(e.play_format) THEN <<<<"people", " ", " ">> \o e.play_format>>
                ELSE <<>>)
            \o (IF Truthy(e.entry_fee) THEN <<<<"money", " ", " ">> \o e.entry_fee>>
                ELSE <<>>)

\* format_event_messages(events): one message per event.
format_event_messages(evs) == [k \in 1..Len(evs) |-> JoinLines(EventLines(evs[k]))]

\* The key get_posted_events reads out of the text of one message, as a set:
\* empty when the text has no date or no organizer it recognizes.
PostedKey(text) ==
    LET date_match == search(posted_date_pattern, text)
        org_match == search(posted_org_pattern, text)
    IN  IF text = <<>> \/ ~date_match.found \/ ~org_match.found THEN {}
        ELSE {group(date_match, text, 1) \o <<"|">>
                  \o replace(replace(strip(Lower(group(org_match, text, 1))),
                                     <<".">>, <<>>), <<" ">>, <<>>)}

\* get_posted_events(client, group_jid, hours_back): the keys of the messages
\* within the look-back window.
get_posted_events(msgs) ==
    UNION {PostedKey(msgs[k].text) : k \in {j \in 1..Len(msgs) : msgs[j].recent}}

\* An ExtractedEvent, with the fields a message is made of.
QuickEvent(type, d, org) ==
    [event_type |-> type, date |-> d, organizer |-> org,
     time_start |-> <<"1", "0", ":", "0", "0">>, time_end |-> <<>>,
     location |-> <<"-", "H", "a", "l", "l", "e">>, address |-> <<>>,
     contact_phone |-> <<"+", "4", "9", "1", "7", "0", "1">>, play_format |-> <<>>,
     entry_fee |-> <<"2", "0", "euro">>]

\* The events an analysis finds: with and without a date, with and without
\* an organizer.
QuickEvents ==
    {QuickEvent("tournament", d, org) :
        d \in {NoneInt, 20260512}, org \in {<<>>, <<"F", "C", " ", "U", "n", "i", "o", "n">>, <<"S", "V", ".", " ", "T", "e", "s", "t", " ">>}}

\* for e in all_events: ... if event_key in already_posted: skip
NewEvents(evs, already_posted) ==
    SelectSeq(evs, LAMBDA e : get_event_key(e) \notin already_posted)

\* The messages posted: client.send_to_group succeeded for those of ok.
Posting(evs, ok) ==
    [k \in 1..Len(evs) |-> [event |-> evs[k], sent |-> ok[k]]]

PostedIdle ==
    /\ all_events = <<>>
    /\ chat = <<>>
    /\ runs = <<>>

\* The analysis finds one more event.
AppendQuickEvent ==
    /\ runs = <<>>
    /\ Len(all_events) < MaxQuickEvents
    /\ \E e \in QuickEvents : all_events' = Append(all_events, e)
    /\ UNCHANGED <<chat, runs>>
    /\ UNCHANGED notPostedVars

\* One run of main(), steps 5 to 7: the duplicate check (skipped with
\* --force), the messages, the sending.
QuickAnalyze ==
    /\ all_events # <<>>
    /\ Len(runs) < MaxRuns
    /\ \E force \in BOOLEAN :
           \E new_events \in {IF force THEN all_events
                              ELSE NewEvents(all_events, get_posted_events(chat))} :
               \E ok \in [1..Len(new_events) -> BOOLEAN] :
                   /\ runs' = Append(runs, [force |-> force,
                                            posting |-> Posting(new_events, ok)])
                   /\ chat' = chat \o
                          [k \in 1..Len(SelectSeq(Posting(new_events, ok), LAMBDA p : p.sent)) |->
                              [text |-> format_event_messages(
                                            <<SelectSeq(Posting(new_events, ok),
                                                        LAMBDA p : p.sent)[k].event>>)[1],
                               recent |-> TRUE]]
    /\ UNCHANGED all_events
    /\ UNCHANGED notPostedVars

\* Time goes by: the messages of the notify group fall out of the look-back
\* window.
WindowPasses ==
    /\ \E k \in 1..Len(chat) : chat[k].recent
    /\ chat' = [k \in 1..Len(chat) |-> [chat[k] EXCEPT !.recent = FALSE]]
    /\ UNCHANGED <<all_events, runs>>
    /\ UNCHANGED notPostedVars

PostedNext == AppendQuickEvent \/ QuickAnalyze \/ WindowPasses

(***************************************************************************)
(* Incremental sync: run_regex_analyzer_on_wacli (run.py) and the sync     *)
(* command (src/main.py)                                                   *)
(*                                                                         *)
(* A run fetches the messages of the group, keeps those with a timestamp   *)
(* at or after the cutoff, analyses them and writes datetime.now() to the  *)
(* last-sync file, the cutoff of the next run.  Fetching is one step and   *)
(* the rest of the run another: the group receives messages and time goes  *)
(* by in between.  A message is its timestamp, the UTC time at which it    *)
(* arrived (the "Z" timestamp of wacli with its zone dropped); messages    *)
(* are told apart by their place in the group.  Every timestamp parses     *)
(* and the group holds fewer messages than the fetch limit of 500.         *)
(***************************************************************************)

\* The last hour of the clock.
MaxClock == 3

\* Largest number of messages in the group.
MaxGroup == 3

\* Number of sync runs.
MaxSyncRuns == 2

\* timedelta(days=30), in hours.
ThirtyDays == 720

\* datetime.now(): local time.
Now == clock + utc_offset

\* The cutoff of a run that is not a full sync: the last-sync timestamp,
\* else 30 days back (days_back of main.py is 30 by default).
Cutoff == IF last_sync # NoneInt THEN last_sync ELSE Now - ThirtyDays

\* if ts >= cutoff: filtered.append(wm) / if cutoff_date and ts < cutoff_date:
\* continue -- the places in the group of the fetched messages that pass.
Filtered(fetched, cutoff) == {k \in 1..fetched : group_msgs[k] >= cutoff}

IncrIdle ==
    /\ clock = 0
    /\ utc_offset = 0
    /\ group_msgs = <<>>
    /\ last_sync = NoneInt
    /\ wacli_messages = 0
    /\ sync_runs = <<>>
    /\ incr_impl = "none"
    /\ incr_pc = "off"

\* No sync has run yet; the machine is on UTC or an hour ahead of it.
IncrInit ==
    /\ clock = 0
    /\ utc_offset \in {0, 1}
    /\ group_msgs = <<>>
    /\ last_sync = NoneInt
    /\ wacli_messages = 0
    /\ sync_runs = <<>>
    /\ incr_impl \in {"run", "main"}
    /\ incr_pc = "idle"

\* An hour goes by.
Tick ==
    /\ incr_pc # "off"
    /\ clock < MaxClock
    /\ clock' = clock + 1
    /\ UNCHANGED <<utc_offset, group_msgs, last_sync, wacli_messages, sync_runs,
                   incr_impl, incr_pc>>
    /\ UNCHANGED notIncrVars

\* A message arrives in the group.
Arrive ==
    /\ incr_pc # "off"
    /\ Len(group_msgs) < MaxGroup
    /\ group_msgs' = Append(group_msgs, clock)
    /\ UNCHANGED <<clock, utc_offset, last_sync, wacli_messages, sync_runs,
                   incr_impl, incr_pc>>
    /\ UNCHANGED notIncrVars

\* wacli_messages = client.get_messages(target_group.jid, limit=500)
Fetch ==
    /\ incr_pc = "idle"
    /\ Len(sync_runs) < MaxSyncRuns
    /\ wacli_messages' = Len(group_msgs)
    /\ incr_pc' = "fetched"
    /\ UNCHANGED <<clock, utc_offset, group_msgs, last_sync, sync_runs, incr_impl>>
    /\ UNCHANGED notIncrVars

\* The rest of the run: the cutoff, the filter, the analysis and the write
\* of the last-sync file.  run.py returns before the write when no message
\* passes the filter; main.py takes sync_time = datetime.now() after the
\* fetch and saves it in every case.
Finish ==
    /\ incr_pc = "fetched"
    /\ \E analysed \in {Filtered(wacli_messages, Cutoff)} :
           /\ sync_runs' = Append(sync_runs,
                                  [fetched |-> wacli_messages, cutoff |-> Cutoff,
                                   analysed |-> analysed,
                                   wrote |-> (incr_impl = "main" \/ analysed # {})])
           /\ last_sync' = IF incr_impl = "run" /\ analysed = {} THEN last_sync ELSE Now
    /\ incr_pc' = "idle"
    /\ UNCHANGED <<clock, utc_offset, group_msgs, wacli_messages, incr_impl>>
    /\ UNCHANGED notIncrVars

IncrNext == Tick \/ Arrive \/ Fetch \/ Finish

(***************************************************************************)
(* From a chat line to its event: WhatsAppChatParser.parse_content on the  *)
(* text of the export, FootballEventExtractor.extract_events on what it    *)
(* returns (regex_analyzer.py)                                             *)
(***************************************************************************)

\* pattern.match(text): the match that starts at the first character.
match(re, text) == SearchFrom(re, text, 1, 1)

\* r'^(\d{2}/\d{2}/\d{4}),\s*(\d{2}:\d{2})\s*-\s*(.+?):\s*(.*)$'
MESSAGE_LINE ==
    Cat(<<LineStart, Group(1, Cat(<<Rep(Chars(Digit), 2, 2), Text(<<"/">>),
        Rep(Chars(Digit), 2, 2), Text(<<"/">>), Rep(Chars(Digit), 4, 4)>>)),
        Text(<<",">>), Star(Chars(Space)), Group(2, Cat(<<Rep(Chars(Digit),
        2, 2), Text(<<":">>), Rep(Chars(Digit), 2, 2)>>)),
        Star(Chars(Space)), Text(<<"-">>), Star(Chars(Space)), Group(3,
        LazyPlus(Chars(Alphabet \ {"\n"}))), Text(<<":">>),
        Star(Chars(Space)), Group(4, Star(Chars(Alphabet \ {"\n"}))),
        LineEnd>>)

\* r'^(\d{2}\.\d{2}\.\d{4}),\s*(\d{2}:\d{2})\s*-\s*(.+?):\s*(.*)$'
MESSAGE_LINE_ALT ==
    Cat(<<LineStart, Group(1, Cat(<<Rep(Chars(Digit), 2, 2), Text(<<".">>),
        Rep(Chars(Digit), 2, 2), Text(<<".">>), Rep(Chars(Digit), 4, 4)>>)),
        Text(<<",">>), Star(Chars(Space)), Group(2, Cat(<<Rep(Chars(Digit),
        2, 2), Text(<<":">>), Rep(Chars(Digit), 2, 2)>>)),
        Star(Chars(Space)), Text(<<"-">>), Star(Chars(Space)), Group(3,
        LazyPlus(Chars(Alphabet \ {"\n"}))), Text(<<":">>),
        Star(Chars(Space)), Group(4, Star(Chars(Alphabet \ {"\n"}))),
        LineEnd>>)

\* r'(?:Startgeb{ue}hr|Teilnahmegeb{ue}hr|Startgeld|Geb{ue}hr)[:\s]*(\d+)\s*[{
\*     euro}Euro]'
ENTRY_FEE_0 ==
    Cat(<<Alt(<<NoCase(<<"S", "t", "a", "r", "t", "g", "e", "b", "ue", "h",
        "r">>), NoCase(<<"T", "e", "i", "l", "n", "a", "h", "m", "e", "g",
        "e", "b", "ue", "h", "r">>), NoCase(<<"S", "t", "a", "r", "t", "g",
        "e", "l", "d">>), NoCase(<<"G", "e", "b", "ue", "h", "r">>)>>),
        Star(Chars(Space \cup {":"})), Group(1, Plus(Chars(Digit))),
        Star(Chars(Space)), Chars({"e", "o", "r", "u", "E", "O", "R", "U",
        "euro"})>>)

\* r'(\d+)\s*[{euro}E]\s*(?:uro)?(?:\s*\(|\s*Startgeb{ue}hr|\s*Teilnahme|\s*St
\*     artgeld|\s*pro\s+Team)?'
ENTRY_FEE_1 ==
    Cat(<<Group(1, Plus(Chars(Digit))), Star(Chars(Space)), Chars({"e", "E",
        "euro"}), Star(Chars(Space)), Opt(NoCase(<<"u", "r", "o">>)),
        Opt(Alt(<<Cat(<<Star(Chars(Space)), Text(<<"(">>)>>),
        Cat(<<Star(Chars(Space)), NoCase(<<"S", "t", "a", "r", "t", "g", "e",
        "b", "ue", "h", "r">>)>>), Cat(<<Star(Chars(Space)), NoCase(<<"T",
        "e", "i", "l", "n", "a", "h", "m", "e">>)>>),
        Cat(<<Star(Chars(Space)), NoCase(<<"S", "t", "a", "r", "t", "g", "e",
        "l", "d">>)>>), Cat(<<Star(Chars(Space)), NoCase(<<"p", "r", "o">>),
        Plus(Chars(Space)), NoCase(<<"T", "e", "a", "m">>)>>)>>))>>)

\* r'(?:Startgeb{ue}hr|Startgeld)[:\s]*(\d+)(?!\s*(?:uhr|Uhr))\b'
ENTRY_FEE_2 ==
    Cat(<<NoCase(<<"S", "t", "a", "r", "t", "g", "e">>), Alt(<<NoCase(<<"b",
        "ue", "h", "r">>), NoCase(<<"l", "d">>)>>),
        Star(Chars(Space \cup {":"})), Group(1, Plus(Chars(Digit))),
        NotAhead(Cat(<<Star(Chars(Space)), Alt(<<NoCase(<<"u", "h", "r">>),
        NoCase(<<"U", "h", "r">>)>>)>>)), WordBoundary>>)

\* r'Startgeb{ue}hr[:\s]*{cross}|keine\s*(?:Start)?geb{ue}hr|kostenfrei|kosten
\*     los'
ENTRY_FEE_3 ==
    Alt(<<Cat(<<NoCase(<<"S", "t", "a", "r", "t", "g", "e", "b", "ue", "h",
        "r">>), Star(Chars(Space \cup {":"})), Text(<<"cross">>)>>),
        Cat(<<NoCase(<<"k", "e", "i", "n", "e">>), Star(Chars(Space)),
        Opt(NoCase(<<"S", "t", "a", "r", "t">>)), NoCase(<<"g", "e", "b",
        "ue", "h", "r">>)>>), NoCase(<<"k", "o", "s", "t", "e", "n", "f",
        "r", "e", "i">>), NoCase(<<"k", "o", "s", "t", "e", "n", "l", "o",
        "s">>)>>)

MaxFee == 500
kostenlos == <<"k", "o", "s", "t", "e", "n", "l", "o", "s">>

\* The fee a pattern with context finds: fee = match.group(1), kept with the
\* euro sign when 1 <= int(fee) <= 500; no fee otherwise.
FeeOf(m, text) ==
    IF m.found /\ ParseInt(group(m, text, 1)) \in 1..MaxFee
    THEN <<group(m, text, 1) \o <<"euro">>>> ELSE <<>>

\* The first fee of ENTRY_FEE[:3], "kostenlos" when there is none and the
\* fourth pattern matches, '' otherwise.
_extract_entry_fee(text) ==
    LET fees == FeeOf(search(ENTRY_FEE_0, text), text)
                    \o FeeOf(search(ENTRY_FEE_1, text), text)
                    \o FeeOf(search(ENTRY_FEE_2, text), text)
    IN  IF fees # <<>> THEN Head(fees)
        ELSE IF search(ENTRY_FEE_3, text).found THEN kostenlos
        ELSE <<>>

\* The ExtractedEvent with the entry fee, which _extract_event reads off the
\* message after the confidence is summed.
WithEntryFee(event) ==
    [f \in DOMAIN event \cup {"entry_fee"} |->
        IF f = "entry_fee" THEN _extract_entry_fee(event.raw_message)
        ELSE event[f]]

\* datetime.strptime(date_str + " " + time_str, "%d/%m/%Y %H:%M"), and with
\* "%d.%m.%Y %H:%M" for a date with dots: both patterns give two digits, the
\* separator, two digits, the separator and four digits.  NoneDateTime stands
\* for the ValueError.
strptime(date_str, time_str) ==
    LET day == ParseInt(SubSeq(date_str, 1, 2))
        month == ParseInt(SubSeq(date_str, 4, 5))
        year == ParseInt(SubSeq(date_str, 7, 10))
        hour == ParseInt(SubSeq(time_str, 1, 2))
        minute == ParseInt(SubSeq(time_str, 4, 5))
    IN  IF /\ year >= 1
           /\ month \in 1..12
           /\ day \in 1..31
           /\ day <= DaysIn(year, month)
           /\ hour \in 0..23
           /\ minute \in 0..59
        THEN DateTime(year * 10000 + month * 100 + day, hour, minute, 0, 0)
        ELSE NoneDateTime

MediaOmittedText == <<"<", "M", "e", "d", "i", "a", " ", "o", "m", "i", "t", "t", "e", "d", ">">>
FileAttachedText == <<"(", "f", "i", "l", "e", " ", "a", "t", "t", "a", "c", "h", "e", "d", ")">>

\* The WhatsAppMessage of a line that matched; ts = datetime.now() when
\* strptime raised.
MessageOfLine(line, m, now) ==
    Message(IF strptime(group(m, line, 1), group(m, line, 2)) = NoneDateTime
            THEN now
            ELSE strptime(group(m, line, 1), group(m, line, 2)),
            strip(group(m, line, 3)),
            strip(group(m, line, 4)),
            \/ Contains(MediaOmittedText, group(m, line, 4))
            \/ Contains(FileAttachedText, group(m, line, 4)))

\* match = MESSAGE_LINE.match(line); if not match: match =
\* MESSAGE_LINE_ALT.match(line)
HeaderMatch(line) ==
    IF match(MESSAGE_LINE, line).found THEN match(MESSAGE_LINE, line)
    ELSE match(MESSAGE_LINE_ALT, line)

\* One pass of the loop over content.split('\n'): a line that matches saves
\* the previous message and opens a new one, any other line is appended to
\* the message that is open and dropped when none is.
ParseLine(st, line, now) ==
    IF HeaderMatch(line).found
    THEN [messages |-> IF st.open THEN Append(st.messages, st.current_msg)
                       ELSE st.messages,
          open |-> TRUE,
          current_msg |-> MessageOfLine(line, HeaderMatch(line), now)]
    ELSE IF st.open
    THEN [st EXCEPT !.current_msg.content = @ \o <<"\n">> \o line]
    ELSE st

RECURSIVE ParseLines(_, _, _)
ParseLines(st, ls, now) ==
    IF ls = <<>> THEN st
    ELSE ParseLines(ParseLine(st, Head(ls), now), Tail(ls), now)

\* parse_content(content) on the characters of the export.
parse_content_text(content, now) ==
    LET st == ParseLines([messages |-> <<>>, open |-> FALSE,
                          current_msg |-> EmptyMessage],
                         split(content), now)
    IN  IF st.open THEN Append(st.messages, st.current_msg) ELSE st.messages

\* The chat lines that are typed: one of the headers, then each of the
\* phrases in turn, taken or left out.
PipeHeaders ==
    {<<"2", "5", "/", "0", "1", "/", "2", "0", "2", "6", ",", " ", "1", "0", ":", "0", "0", " ", "-", " ", "+", "4", "9", "1", "7", "1", "2", "3", "4", "5", "6", "7", "8", ":">>,
     <<"2", "5", ".", "0", "1", ".", "2", "0", "2", "6", ",", " ", "1", "0", ":", "0", "0", " ", "-", " ", "+", "4", "9", "1", "7", "1", "2", "3", "4", "5", "6", "7", "8", ":">>,
     <<"3", "1", "/", "0", "2", "/", "2", "0", "2", "6", ",", " ", "1", "0", ":", "0", "0", " ", "-", " ", "+", "4", "9", "1", "7", "1", "2", "3", "4", "5", "6", "7", "8", ":">>}
PipePhrases ==
    <<<<" ", "W", "i", "r", " ", "s", "u", "c", "h", "e", "n", " ", "G", "e", "g", "n", "e", "r", " ", "f", "ue", "r", " ", "T", "e", "s", "t", "s", "p", "i", "e", "l">>,
      <<" ", "a", "m", " ", "2", "5", ".", "0", "1", ".">>,
      <<" ", "N", "i", "v", "e", "a", "u", " ", "5", ",">>,
      <<" ", "S", "p", "i", "e", "l", "o", "r", "t", " ", "S", "p", "o", "r", "t", "h", "a", "l", "l", "e", " ", "M", "i", "t", "t", "e", ",">>,
      <<" ", "S", "t", "a", "r", "t", "g", "e", "l", "d", " ", "2", "0", "euro">>,
      <<"\n", "M", "e", "l", "d", "e", "t", " ", "e", "u", "c", "h">>>>
PipeNow == DateTime(20261102, 12, 0, 0, 0)

PipeIdle ==
    /\ pipe_pc = "off"
    /\ pipe_content = <<>>
    /\ pipe_phrase = 0
    /\ pipe_messages = <<>>
    /\ pipe_events = <<>>

PipeInit ==
    /\ pipe_pc = "typing"
    /\ pipe_content \in PipeHeaders
    /\ pipe_phrase = 1
    /\ pipe_messages = <<>>
    /\ pipe_events = <<>>

TypePhrase ==
    /\ pipe_pc = "typing"
    /\ pipe_phrase <= Len(PipePhrases)
    /\ pipe_content' = pipe_content \o PipePhrases[pipe_phrase]
    /\ pipe_phrase' = pipe_phrase + 1
    /\ UNCHANGED <<pipe_messages, pipe_events, pipe_pc>>
    /\ UNCHANGED notPipeVars

LeavePhraseOut ==
    /\ pipe_pc = "typing"
    /\ pipe_phrase <= Len(PipePhrases)
    /\ pipe_phrase' = pipe_phrase + 1
    /\ UNCHANGED <<pipe_content, pipe_messages, pipe_events, pipe_pc>>
    /\ UNCHANGED notPipeVars

\* messages = parser.parse_content(content)
PipeParse ==
    /\ pipe_pc = "typing"
    /\ pipe_phrase > Len(PipePhrases)
    /\ pipe_messages' = parse_content_text(pipe_content, PipeNow)
    /\ pipe_pc' = "parsed"
    /\ UNCHANGED <<pipe_content, pipe_phrase, pipe_events>>
    /\ UNCHANGED notPipeVars

\* events = extractor.extract_events(messages)
PipeExtract ==
    /\ pipe_pc = "parsed"
    /\ pipe_events' \in {[k \in 1..Len(found) |-> WithEntryFee(found[k])] :
                            found \in extract_events(pipe_messages)}
    /\ pipe_pc' = "extracted"
    /\ UNCHANGED <<pipe_content, pipe_phrase, pipe_messages>>
    /\ UNCHANGED notPipeVars

PipeNext == TypePhrase \/ LeavePhraseOut \/ PipeParse \/ PipeExtract

(***************************************************************************)
(* Specifications, one per component                                       *)
(***************************************************************************)

InitDedup == DedupIdle /\ FilterIdle /\ DbIdle /\ SerialIdle /\ SegIdle
    /\ ExtractIdle /\ LoadIdle /\ EntryIdle /\ CalSyncIdle /\ PersistIdle /\ PostedIdle /\ IncrIdle /\ PipeIdle

SpecDedup == InitDedup /\ [][DedupNext]_vars

InitFilter == FilterIdle /\ DedupIdle /\ DbIdle /\ SerialIdle /\ SegIdle
    /\ ExtractIdle /\ LoadIdle /\ EntryIdle /\ CalSyncIdle /\ PersistIdle /\ PostedIdle /\ IncrIdle /\ PipeIdle

SpecFilter == InitFilter /\ [][FilterNext]_vars

InitDb == DbIdle /\ DedupIdle /\ FilterIdle /\ SerialIdle /\ SegIdle
    /\ ExtractIdle /\ LoadIdle /\ EntryIdle /\ CalSyncIdle /\ PersistIdle /\ PostedIdle /\ IncrIdle /\ PipeIdle

SpecAdd == InitDb /\ [][DbNext]_vars

InitSerial == SerialInit /\ DedupIdle /\ FilterIdle /\ DbIdle /\ SegIdle
    /\ ExtractIdle /\ LoadIdle /\ EntryIdle /\ CalSyncIdle /\ PersistIdle /\ PostedIdle /\ IncrIdle /\ PipeIdle

SpecSerial == InitSerial /\ [][SerialNext]_vars

InitSeg == SegInit /\ DedupIdle /\ FilterIdle /\ DbIdle /\ SerialIdle
    /\ ExtractIdle /\ LoadIdle /\ EntryIdle /\ CalSyncIdle /\ PersistIdle /\ PostedIdle /\ IncrIdle /\ PipeIdle

SpecSeg == InitSeg /\ [][SegNext]_vars

InitTime == ExtractIdle /\ DedupIdle /\ FilterIdle /\ DbIdle /\ SerialIdle /\ SegIdle
    /\ LoadIdle /\ EntryIdle /\ CalSyncIdle /\ PersistIdle /\ PostedIdle /\ IncrIdle /\ PipeIdle

SpecTime == InitTime /\ [][TimeNext]_vars

InitDate == ExtractIdle /\ DedupIdle /\ FilterIdle /\ DbIdle /\ SerialIdle /\ SegIdle
    /\ LoadIdle /\ EntryIdle /\ CalSyncIdle /\ PersistIdle /\ PostedIdle /\ IncrIdle /\ PipeIdle

SpecDate == InitDate /\ [][DateNext]_vars

InitFormat == ExtractIdle /\ DedupIdle /\ FilterIdle /\ DbIdle /\ SerialIdle
    /\ SegIdle /\ LoadIdle /\ EntryIdle /\ CalSyncIdle /\ PersistIdle /\ PostedIdle /\ IncrIdle /\ PipeIdle

SpecFormat == InitFormat /\ [][FormatNext]_vars

InitEvents == ExtractIdle /\ DedupIdle /\ FilterIdle /\ DbIdle /\ SerialIdle
    /\ SegIdle /\ LoadIdle /\ EntryIdle /\ CalSyncIdle /\ PersistIdle /\ PostedIdle /\ IncrIdle /\ PipeIdle

SpecEvents == InitEvents /\ [][EventsNext]_vars

InitLoad == LoadIdle /\ DbIdle /\ DedupIdle /\ FilterIdle /\ SerialIdle /\ SegIdle
    /\ ExtractIdle /\ EntryIdle /\ CalSyncIdle /\ PersistIdle /\ PostedIdle /\ IncrIdle /\ PipeIdle

SpecLoad == InitLoad /\ [][LoadNext]_vars

InitEntry == EntryIdle /\ DedupIdle /\ FilterIdle /\ DbIdle /\ SerialIdle /\ SegIdle
    /\ ExtractIdle /\ LoadIdle /\ CalSyncIdle /\ PersistIdle /\ PostedIdle /\ IncrIdle /\ PipeIdle

SpecEntry == InitEntry /\ [][EntryNext]_vars

InitCalSync == CalSyncInit /\ DedupIdle /\ FilterIdle /\ DbIdle /\ SerialIdle /\ SegIdle
    /\ ExtractIdle /\ LoadIdle /\ EntryIdle /\ PersistIdle /\ PostedIdle /\ IncrIdle /\ PipeIdle

SpecCalSync == InitCalSync /\ [][CalSyncNext]_vars

InitPersist == PersistInit /\ DedupIdle /\ FilterIdle /\ DbIdle /\ SerialIdle /\ SegIdle
    /\ ExtractIdle /\ LoadIdle /\ EntryIdle /\ CalSyncIdle /\ PostedIdle /\ IncrIdle /\ PipeIdle

SpecPersist == InitPersist /\ [][PersistNext]_vars

InitPosted == PostedIdle /\ DedupIdle /\ FilterIdle /\ DbIdle /\ SerialIdle /\ SegIdle
    /\ ExtractIdle /\ LoadIdle /\ EntryIdle /\ CalSyncIdle /\ PersistIdle /\ IncrIdle /\ PipeIdle

SpecPosted == InitPosted /\ [][PostedNext]_vars

InitIncr == IncrInit /\ DedupIdle /\ FilterIdle /\ DbIdle /\ SerialIdle /\ SegIdle
    /\ ExtractIdle /\ LoadIdle /\ EntryIdle /\ CalSyncIdle /\ PersistIdle /\ PostedIdle /\ PipeIdle

SpecIncr == InitIncr /\ [][IncrNext]_vars

InitPipe == PipeInit /\ DedupIdle /\ FilterIdle /\ DbIdle /\ SerialIdle /\ SegIdle
    /\ ExtractIdle /\ LoadIdle /\ EntryIdle /\ CalSyncIdle /\ PersistIdle /\ PostedIdle
    /\ IncrIdle

SpecPipe == InitPipe /\ [][PipeNext]_vars

(***************************************************************************)
(* Claims                                                                  *)
(***************************************************************************)

\* The seven per-field predicates of a query, evaluated on one event.
SatisfiesAll(e, c) ==
    /\ filter_by_date(e, c.date_from, c.date_to)
    /\ filter_by_level(e, c.min_level, c.max_level)
    /\ filter_by_age_group(e, c.age_groups)
    /\ filter_by_type(e, c.event_types)
    /\ filter_by_status(e, c.only_open)
    /\ filter_by_location(e, c.location_contains)
    /\ filter_by_organizer(e, c.organizer_contains)

\* C4: filter_events(L, C) holds only elements of L, each of which satisfies
\* every one of the seven per-field predicates under C, and it holds every
\* element of L that satisfies all seven.
C4_FilterIsConjunction ==
    called = "filter" =>
        /\ \A j \in 1..Len(result) :
              /\ \E i \in 1..Len(stored) : stored[i] = result[j]
              /\ SatisfiesAll(result[j], criteria)
        /\ \A i \in 1..Len(stored) :
              SatisfiesAll(stored[i], criteria) =>
                  \E j \in 1..Len(result) : result[j] = stored[i]

\* C4 witness: a query with an open-only and a location criterion that
\* dropped a full event and kept an open one.
C4_Witness ==
    /\ called = "filter"
    /\ Len(stored) = 2
    /\ criteria.only_open
    /\ criteria.location_contains # NoneStr
    /\ stored[1].status = "full"
    /\ result = <<stored[2]>>

\* C5: sorted by date, every event without a date comes after every event
\* with a date, with reverse=False and with reverse=True.
C5_NullsLastAnyDirection ==
    (called = "sort" /\ sortArgs.by = "date") =>
        \A i, j \in 1..Len(result) :
            (result[i].date = NoneInt /\ result[j].date # NoneInt) => j < i

\* C6: add(e) returns True and stores e exactly when no event with e.id is
\* stored; otherwise it returns False and leaves the store as it was.  After
\* any sequence of add calls each id maps to the first event added with it.
C6_AddIsIdempotent ==
    /\ first_added # <<>> =>
          /\ add_ret = ~InStore(db_before, add_arg.id)
          /\ add_ret = TRUE =>
                /\ Len(db_events) = Len(db_before) + 1
                /\ Stored(db_events, add_arg.id) = add_arg
                /\ \A k \in 1..Len(db_before) : db_events[k] = db_before[k]
          /\ add_ret = FALSE => db_events = db_before
    /\ {db_events[k].id : k \in 1..Len(db_events)}
          = {first_added[k].id : k \in 1..Len(first_added)}
    /\ \A k \in 1..Len(first_added) :
          Stored(db_events, first_added[k].id) = first_added[k]

\* C6 witness: an add of a second version of a stored id was refused.
C6_Witness ==
    /\ first_added # <<>>
    /\ add_ret = FALSE
    /\ Len(db_events) = 2
    /\ InStore(db_events, add_arg.id)
    /\ Stored(db_events, add_arg.id) # add_arg

\* C7: from_dict(to_dict(e)) equals e field for field, for optional fields
\* that are None and for populated ones.
C7_RoundTrip ==
    ser_pc = "restored" =>
        /\ DOMAIN restored = DOMAIN original
        /\ \A f \in DOMAIN original : restored[f] = original[f]

\* C7 witness: a round trip of an event with a date, a source timestamp with
\* microseconds, and None in time_start and location, through ISO text.
C7_Witness ==
    /\ ser_pc = "restored"
    /\ original.date = 20260125
    /\ original.source_timestamp.microsecond # 0
    /\ original.time_start = NoneStr
    /\ original.location = NoneStr
    /\ original.entry_fee = 20
    /\ Len(data.date) = 10
    /\ Len(data.source_timestamp) = 26

\* Whether the parser that ran takes a line for a message header, and
\* whether it can read that header's date and time.
IsHeader(line) ==
    IF seg_impl = "parser" THEN MatchesPattern(line) \/ MatchesPatternAlt(line)
    ELSE MatchesMessageLine(line) \/ MatchesMessageLineAlt(line)
IsParseable(line) ==
    IF seg_impl = "parser" THEN parse_timestamp(line.hour, line.n1, line.n2).ok
    ELSE strptime_dmy(line.hour, line.n1, line.n2).ok

\* The lines for which the parse made a Message.
Origins == {seg.origin[k] : k \in 1..Len(seg.origin)}

\* C8: a header line whose date/time cannot be parsed is dropped, no Message
\* is made for it, by parse_export_text and by parse_content alike.
C8_UnparseableHeaderDropped ==
    seg_pc = "parsed" =>
        \A i \in 1..Len(lines) :
            (IsHeader(lines[i]) /\ ~IsParseable(lines[i])) => i \notin Origins

\* The content the Message made for line i must end up with: the header's
\* text, then the lines that are no header, up to the next line a Message was
\* made for.
ContinuationLines(i) ==
    LET later == {j \in Origins : j > i}
        stop == IF later = {} THEN Len(lines) + 1
                ELSE CHOOSE j \in later : \A j2 \in later : j <= j2
    IN  SelectSeq(SubSeq(lines, i + 1, stop - 1), LAMBDA l : ~IsHeader(l))

\* C9: a line that matches no header pattern is appended to the content of
\* the Message made last before it, and to no other; before any Message is
\* made, such a line is dropped and makes no Message.
C9_ContinuationJoinsPreceding ==
    seg_pc = "parsed" =>
        \A k \in 1..Len(seg.heap) :
            /\ IsHeader(lines[seg.origin[k]])
            /\ seg.heap[k].content =
                   <<TextLine(Strip(lines[seg.origin[k]].text))>>
                       \o ContinuationLines(seg.origin[k])

\* C9 witness: a text line before the only header was dropped, a text line
\* after it became the second line of its Message.
C9_Witness ==
    /\ seg_pc = "parsed"
    /\ Len(lines) = 3
    /\ lines[1].kind = "text"
    /\ IsHeader(lines[2])
    /\ lines[3].kind = "text"
    /\ Len(seg.heap) = 1
    /\ seg.heap[1].content = <<TextLine(Strip(lines[2].text)), lines[3]>>

\* C10: the Messages of parse_export_text, written back in export syntax and
\* parsed again, are the same Messages: timestamps, senders, contents and
\* has_media flags.
C10_SegmentationIdempotent ==
    (seg_pc = "reparsed" /\ seg_impl = "parser") =>
        Messages(reseg) = Messages(seg)

\* The hour of a time "H:MM" or "HH:MM"; a time that was not returned ("" or
\* None) has no hour to be out of range.
HourOf(time) ==
    ParseInt(SubSeq(time, 1, (CHOOSE k \in 1..Len(time) : time[k] = ":") - 1))
HourInRange(time) ==
    (time # <<>> /\ time # NoneStr) => (HourOf(time) >= 0 /\ HourOf(time) <= 23)

\* C11: no time extractor returns a start or an end time whose hour is
\* outside 0..23, whichever pattern of the cascade matched.
C11_HoursInRange ==
    call \in {"_extract_time", "extract_time"} =>
        HourInRange(ret.start) /\ HourInRange(ret.end)

\* result holds the event (ids are positions, so an event is in the list once).
InResult(e) == \E j \in 1..Len(result) : result[j] = e

\* C14: an event without a date passes the date filter exactly when date_from
\* and date_to are both unset: it is dropped as soon as either bound is set,
\* with both unset it is kept whenever the other six checks keep it, and a
\* query with the defaults (only_open=True, no bound) keeps the open dateless
\* event.
C14_DatelessPassesIffNoBound ==
    called = "filter" =>
        \A i \in 1..Len(stored) :
            stored[i].date = NoneInt =>
                /\ (criteria.date_from # NoneInt \/ criteria.date_to # NoneInt)
                       => ~InResult(stored[i])
                /\ (criteria.date_from = NoneInt /\ criteria.date_to = NoneInt)
                       => (InResult(stored[i]) <=>
                              /\ filter_by_level(stored[i], criteria.min_level,
                                                 criteria.max_level)
                              /\ filter_by_age_group(stored[i], criteria.age_groups)
                              /\ filter_by_type(stored[i], criteria.event_types)
                              /\ filter_by_status(stored[i], criteria.only_open)
                              /\ filter_by_location(stored[i],
                                                    criteria.location_contains)
                              /\ filter_by_organizer(stored[i],
                                                     criteria.organizer_contains))
                /\ (criteria = DefaultCriteria /\ stored[i].status = "open")
                       => InResult(stored[i])

\* C14 witness: a query with a lower date bound and nothing else set dropped
\* the dateless event and kept the dated one.
C14_Witness ==
    /\ called = "filter"
    /\ Len(stored) = 2
    /\ stored[1].date = NoneInt
    /\ stored[2].date # NoneInt
    /\ criteria = [DefaultCriteria EXCEPT !.date_from = 20260120]
    /\ result = <<stored[2]>>

\* C15: an event without a skill level is kept or dropped as if no level
\* bound were set, and an event without an age group as if no age groups
\* were asked for: the level and the age-group checks never drop it.
C15_AbsentSkillOrAgePasses ==
    called = "filter" =>
        \A i \in 1..Len(stored) :
            /\ stored[i].skill_level = NoneInt =>
                  /\ filter_by_level(stored[i], criteria.min_level, criteria.max_level)
                  /\ InResult(stored[i]) <=>
                        /\ filter_by_date(stored[i], criteria.date_from,
                                          criteria.date_to)
                        /\ filter_by_age_group(stored[i], criteria.age_groups)
                        /\ filter_by_type(stored[i], criteria.event_types)
                        /\ filter_by_status(stored[i], criteria.only_open)
                        /\ filter_by_location(stored[i], criteria.location_contains)
                        /\ filter_by_organizer(stored[i],
                                               criteria.organizer_contains)
            /\ stored[i].age_group = NoneStr =>
                  /\ filter_by_age_group(stored[i], criteria.age_groups)
                  /\ InResult(stored[i]) <=>
                        /\ filter_by_date(stored[i], criteria.date_from,
                                          criteria.date_to)
                        /\ filter_by_level(stored[i], criteria.min_level,
                                           criteria.max_level)
                        /\ filter_by_type(stored[i], criteria.event_types)
                        /\ filter_by_status(stored[i], criteria.only_open)
                        /\ filter_by_location(stored[i], criteria.location_contains)
                        /\ filter_by_organizer(stored[i],
                                               criteria.organizer_contains)

\* C15 witness: a query with a level bound and an age group kept an event
\* without a skill level and an event without an age group.
C15_Witness ==
    /\ called = "filter"
    /\ Len(stored) = 2
    /\ stored[1].skill_level = NoneInt
    /\ stored[2].age_group = NoneStr
    /\ criteria.min_level = 3
    /\ criteria.age_groups # NoneList /\ criteria.age_groups # <<>>
    /\ result = stored

\* A store file as save() writes it: a JSON list of event dicts.
WellFormed(file) ==
    /\ file.kind = "list"
    /\ \A k \in 1..Len(file.items) : file.items[k].kind = "event"

\* C16: opening the store on a path with no file gives an empty store without
\* an error, and opening it on a file that is there but malformed raises: it
\* never returns a store, empty or partly loaded.
C16_MalformedFileRaises ==
    db_open # "none" =>
        /\ ~db_file.exists => (db_open = "loaded" /\ db_events = <<>>)
        /\ (db_file.exists /\ ~WellFormed(db_file)) => db_open # "loaded"

\* The relative weekday expression of the text, as its modifier and the
\* number of the weekday it names (Monday is 0).
RelativeExpression(text) ==
    LET m == search(DATES_4, text)
    IN  [next |-> \/ Contains(<<"n", "ae", "c", "h", "s", "t">>, Lower(group(m, text, 1)))
                  \/ Contains(<<"k", "o", "m", "m", "e", "n", "d">>,
                              Lower(group(m, text, 1))),
         named |-> Get(WEEKDAYS, Lower(group(m, text, 2)), NoneInt)]

\* C17: a date resolved from a relative weekday expression (confidence 0.7)
\* falls on the weekday the expression names; with "naechsten"/"kommenden"
\* it lies 1 to 7 days after the date of the message, with "diesen" 0 to 6
\* days after it.
C17_RelativeWeekday ==
    (call \in {"_extract_date", "add_date"} /\ ret.conf = 70) =>
        LET expr == RelativeExpression(message.content)
            offset == ToOrdinal(ret.date) - ToOrdinal(message.timestamp.date)
        IN  /\ MakeDate(YearOf(ret.date), MonthOf(ret.date), DayOf(ret.date)).ok
            /\ weekday(ret.date) = expr.named
            /\ IF expr.next THEN offset \in 1..7 ELSE offset \in 0..6

\* C17 witness: "naechsten Freitag" in a message of Friday 16 January 2026
\* resolved to the Friday after, 23 January.
C17_Witness ==
    /\ call = "_extract_date"
    /\ message.timestamp.date = 20260116
    /\ message.content = <<"n", "ae", "c", "h", "s", "t", "e", "n", " ",
                           "F", "r", "e", "i", "t", "a", "g">>
    /\ ret.conf = 70
    /\ ret.date = 20260123

\* C20: a text with a valid date added to it has a date confidence at least
\* as high as the text had without that date.
C20_DateConfidenceMonotone ==
    call = "add_date" => ret.conf >= ret.without

\* A play format of the form players+keeper, blanks aside, as its two numbers.
IsPlusFormat(format) == Contains(<<"+">>, format)
PlayersOf(format) ==
    LET str == Remove(format, " ")
    IN  ParseInt(SubSeq(str, 1, (CHOOSE k \in 1..Len(str) : str[k] = "+") - 1))
KeeperOf(format) ==
    LET str == Remove(format, " ")
    IN  ParseInt(SubSeq(str, (CHOOSE k \in 1..Len(str) : str[k] = "+") + 1, Len(str)))

\* C18: every play format of the form players+keeper that the extractor
\* returns has 3 to 7 players and exactly 1 keeper, whichever pattern of the
\* cascade returned it.
C18_PlusFormatInBounds ==
    (call = "_extract_play_format" /\ IsPlusFormat(ret.format)) =>
        /\ 3 <= PlayersOf(ret.format) /\ PlayersOf(ret.format) <= 7
        /\ KeeperOf(ret.format) = 1

\* The similarity group as the specification words it: same date, same
\* event type, organizers equal on their first 15 characters.
First15(s) == [i \in 1..Min(15, Len(s)) |-> s[i]]
SameGroup(a, b) ==
    /\ a.date = b.date
    /\ a.event_type = b.event_type
    /\ First15(a.organizer) = First15(b.organizer)

\* Index of the event of evs that must survive for the group of evs[i]: the
\* highest confidence of the group, the earliest such on a tie.
IsGroupWinner(evs, i) ==
    \A j \in 1..Len(evs) :
        SameGroup(evs[i], evs[j]) =>
            \/ evs[j].confidence < evs[i].confidence
            \/ evs[j].confidence = evs[i].confidence /\ i <= j

\* C1: deduplicate returns exactly one event per similarity group of its
\* input, namely the group's event of highest confidence, and on a tie of the
\* highest confidence the one that came first in the input.
C1_OnePerGroupHighestFirst ==
    passes >= 1 =>
        /\ \A i \in 1..Len(events) :
              Cardinality({j \in 1..Len(deduped) : SameGroup(deduped[j], events[i])}) = 1
        /\ \A j \in 1..Len(deduped) :
              \E i \in 1..Len(events) :
                  events[i] = deduped[j] /\ IsGroupWinner(events, i)

\* C1 witness: a group of three with a tie of the highest confidence, whose
\* first member of that confidence survived.
C1_Witness ==
    /\ passes = 1
    /\ Len(events) = 3
    /\ SameGroup(events[1], events[2]) /\ SameGroup(events[2], events[3])
    /\ events[1].confidence = 60
    /\ events[2].confidence = 80
    /\ events[3].confidence = 80
    /\ deduped = <<events[2]>>

\* C2: deduplication is idempotent: a second pass over the result of the
\* first returns the same events in the same order.
C2_Idempotent == passes = 2 => rededuped = deduped

\* C2 witness: the first pass merged something and kept several groups, and
\* the second pass has run.
C2_Witness ==
    /\ passes = 2
    /\ Len(events) = 3
    /\ Len(deduped) = 2
    /\ deduped[1].raw_message = 3

\* C3: two events of the same date and type whose organizers agree on their
\* first 15 characters are merged into one event, the one of higher
\* confidence; "FC Borussia Berlin" (0.6) and "FC Borussia Berlin " (0.8)
\* yield exactly the 0.8 event.
C3_PrefixMerged ==
    passes >= 1 =>
        /\ \A i, j \in 1..Len(events) :
              (/\ events[i].date = events[j].date
               /\ events[i].event_type = events[j].event_type
               /\ First15(events[i].organizer) = First15(events[j].organizer)
               /\ events[i].confidence < events[j].confidence)
              => \A k \in 1..Len(deduped) : deduped[k] # events[i]
        /\ (/\ Len(events) = 2
            /\ {events[1].organizer, events[2].organizer}
                   = {FCBorussiaBerlin, FCBorussiaBerlinSpace}
            /\ events[1].date = events[2].date
            /\ events[1].event_type = events[2].event_type
            /\ {events[1].confidence, events[2].confidence} = {60, 80})
           => /\ Len(deduped) = 1
              /\ deduped[1].confidence = 80

\* C3 witness: the scenario of the two spellings, 0.6 first, merged.
C3_Witness ==
    /\ passes = 1
    /\ Len(events) = 2
    /\ events[1].organizer = FCBorussiaBerlin /\ events[1].confidence = 60
    /\ events[2].organizer = FCBorussiaBerlinSpace /\ events[2].confidence = 80
    /\ events[1].date = events[2].date
    /\ events[1].event_type = events[2].event_type
    /\ Len(deduped) = 1

\* The confidences the field extractors return for a message, in the order
\* in which _extract_event calls them.
FieldConfidences(msg) ==
    <<_extract_event_type(msg.content).conf,
      _extract_date(msg.content, msg.timestamp).conf,
      _extract_time(msg.content).conf,
      _extract_location(msg.content).conf,
      _extract_organizer(msg.content, msg.sender).conf,
      _extract_skill_level(msg.content).conf,
      _extract_age_group(msg.content).conf,
      _extract_play_format(msg.content).conf>>

\* C12: the confidence _extract_event assembles for a message is
\* min(1.0, 0.2*type + 0.25*date + 0.1*time + 0.1*location + 0.1*organizer
\* + 0.05*skill + 0.05*age + 0.05*format), every per-field confidence is in
\* [0, 1], and the confidence of every event, assembled or extracted, is in
\* [0, 0.90].
C12_ConfidenceIsWeightedSum ==
    /\ call = "_extract_event" =>
           \A conf \in {FieldConfidences(message)} :
               /\ \A i \in 1..Len(conf) : conf[i] \in 0..100
               /\ ret.confidence =
                      Min(10000, 20 * conf[1] + 25 * conf[2] + 10 * conf[3]
                                     + 10 * conf[4] + 10 * conf[5]
                                     + 5 * conf[6] + 5 * conf[7] + 5 * conf[8])
               /\ ret.confidence \in 0..9000
    /\ call = "extract_events" =>
           \A k \in 1..Len(ret) : ret[k].confidence \in 0..9000

\* C12 witness: an event assembled from a date, a time, a location and an
\* organizer, of four different weights and confidences, and no type.
C12_Witness ==
    /\ call = "_extract_event"
    /\ ret.event_type = "unknown"
    /\ ret.date = 20260512
    /\ ret.time_start # <<>>
    /\ ret.location = Halle
    /\ ret.organizer # <<>>
    /\ ret.confidence = 25 * 100 + 10 * 100 + 10 * 70 + 10 * 85

\* C13: extract_events yields at most one event per message, and none for a
\* message that fails the relevance pre-filter or whose event type is not
\* detected.
C13_NoEventWithoutRelevanceAndType ==
    call = "extract_events" =>
        /\ Len(ret) <= Len(<<Announcement, message>>)
        /\ \A j, k \in 1..Len(ret) :
               ret[j].raw_message = ret[k].raw_message => j = k
        /\ \A k \in 1..Len(ret) :
               /\ ret[k].raw_message \in {Announcement.content, message.content}
               /\ _is_event_relevant(ret[k].raw_message)
               /\ ret[k].event_type # "unknown"

\* C19: extract_events emits no event for a message that _is_system_message
\* takes for a system message.
C19_NoEventForSystemMessage ==
    call = "extract_events" =>
        \A msg \in {Announcement, message} :
            _is_system_message(msg) =>
                \A k \in 1..Len(ret) : ret[k].raw_message # msg.content

\* C19 witness: a message with "left" in it that passes the relevance gate
\* and whose event would have been confident enough; extract_events
\* returned the event of the announcement only.
C19_Witness ==
    /\ call = "extract_events"
    /\ _is_system_message(message)
    /\ _is_event_relevant(message.content)
    /\ _extract_event(message).confidence > Threshold
    /\ Len(ret) = 1
    /\ ret[1].raw_message = Announcement.content

\* The seven patterns of the cascade of _extract_time, in its order: which of
\* them match the text (the range with both hours in 0..23).
StagesFound(text) ==
    <<RangeTime(text).ok,
      search(TIMES_1, text).found,
      search(TIMES_2, text).found,
      search(TIMES_3, text).found,
      search(TIMES_4, text).found,
      search(TIMES_5, text).found,
      search(TIMES_6, text).found>>

\* The first stage that matches; 0 when none does.
FirstMatch(found) ==
    IF \E k \in 1..Len(found) : found[k]
    THEN CHOOSE k \in 1..Len(found) : found[k] /\ \A j \in 1..(k - 1) : ~found[j]
    ELSE 0

\* The confidences a stage returns, in hundredths, and the tier of the stage.
StageConfidence == <<{100}, {90, 80}, {90, 80}, {70}, {70}, {60}, {60}>>
StageTier == <<1, 2, 2, 3, 3, 4, 4>>

\* The time a single pattern contributes.
StageTime(k, text) ==
    CASE k = 2 -> HourMinute(search(TIMES_1, text), text)
      [] k = 3 -> HourMinute(search(TIMES_2, text), text)
      [] k = 4 -> HourMinute(search(TIMES_3, text), text)
      [] k = 5 -> HourMinute(search(TIMES_4, text), text)
      [] k = 6 -> HourMinute(search(TIMES_5, text), text)
      [] k = 7 -> HourMinute(search(TIMES_6, text), text)

\* Stage k decided the result r: its time is in r and r has its confidence.
StageWins(k, text, r) ==
    CASE k = 0 -> r = TimeResult(<<>>, <<>>, 0)
      [] k = 1 -> r = RangeTime(text).value
      [] k = 3 -> r.end = StageTime(3, text) /\ r.conf \in StageConfidence[3]
      [] OTHER -> r.start = StageTime(k, text) /\ r.conf \in StageConfidence[k]

\* The confidences fall from tier to tier: every stage of an earlier tier
\* returns more than the result r of stage k.
LowerThanEarlierTiers(k, r) ==
    \A j \in 1..(k - 1) :
        StageTier[j] < StageTier[k] => \A c \in StageConfidence[j] : c > r.conf

\* C21 as stated: over the seven patterns (range, labeled start, labeled end,
\* clock emoji, "ab", "HH:MM Uhr", "H Uhr") the first that matches decides the
\* result, with a confidence below that of every earlier tier.
C21_FirstOfSevenWins ==
    call = "_extract_time" =>
        \A found \in {StagesFound(message.content)} :
            /\ StageWins(FirstMatch(found), message.content, ret)
            /\ LowerThanEarlierTiers(FirstMatch(found), ret)

\* C21: the first matching pattern of range, labeled start, clock emoji,
\* "ab", "HH:MM Uhr" and "H Uhr" decides the result; the labeled end is no
\* stage of its own, it only adds the end time (and 0.9 instead of 0.8) when
\* the labeled start decides; the confidence is below that of every earlier
\* tier (1.0, 0.9/0.8, 0.7, 0.6).
C21_FirstMatchWins ==
    call = "_extract_time" =>
        \A found \in {StagesFound(message.content)} :
            \A k \in {FirstMatch([found EXCEPT ![3] = FALSE])} :
                /\ StageWins(k, message.content, ret)
                /\ LowerThanEarlierTiers(k, ret)
                /\ k \notin {0, 1} =>
                       ret.end = (IF k = 2 /\ found[3]
                                  THEN StageTime(3, message.content) ELSE <<>>)
                /\ k = 2 => (ret.conf = 90 <=> found[3])

\* C21 witness: only the labeled end and a later pattern match (as in "Ende
\* 13.30 Uhr"); the later pattern decided and no end time is returned.
C21_Witness ==
    /\ call = "_extract_time"
    /\ \E found \in {StagesFound(message.content)} :
           /\ FirstMatch(found) = 3
           /\ \E k \in 4..7 : found[k]
    /\ ret.start # <<>>
    /\ ret.end = <<>>
    /\ ret.conf \in {60, 70}

\* A time that was returned: neither "" nor None.
IsTime(time) == time # <<>> /\ time # NoneStr

\* C29: whenever _extract_time or extract_time returns an end time it returns
\* a start time as well, also when only the labeled end pattern matches.
C29_NoEndWithoutStart ==
    call \in {"_extract_time", "extract_time"} =>
        (IsTime(ret.end) => IsTime(ret.start))

\* C29 witness: the labeled end pattern matches, neither the range nor the
\* labeled start does, and _extract_time returned no end time.
C29_Witness ==
    /\ call = "_extract_time"
    /\ search(TIMES_2, message.content).found
    /\ ~search(TIMES_1, message.content).found
    /\ ~RangeTime(message.content).ok
    /\ ~IsTime(ret.end)

\* C22: the timestamp of a Message is its header's date read as
\* month/day/year when the two leading numbers are a valid month and day, and
\* as day/month/year when they are valid in that order only, whichever parser
\* made the Message.
C22_MonthDayFirst ==
    seg_pc = "parsed" =>
        \A k \in 1..Len(seg.heap) :
            \A line \in {lines[seg.origin[k]]} :
                /\ ValidDate(line.n1, line.n2, line.hour) =>
                       seg.heap[k].timestamp = Timestamp(line.n1, line.n2, line.hour)
                /\ (~ValidDate(line.n1, line.n2, line.hour)
                        /\ ValidDate(line.n2, line.n1, line.hour)) =>
                       seg.heap[k].timestamp = Timestamp(line.n2, line.n1, line.hour)

\* The lines after header line i up to the next header line, dropped or not.
LinesOfHeader(i) ==
    LET later == {j \in (i + 1)..Len(lines) : IsHeader(lines[j])}
        stop == IF later = {} THEN Len(lines) + 1
                ELSE CHOOSE j \in later : \A j2 \in later : j <= j2
    IN  SubSeq(lines, i + 1, stop - 1)

\* C25: parse_export_text returns one Message per header line with a
\* parseable timestamp, no Message object twice, and the content of a Message
\* ends at the next header line, so that a line following a dropped header
\* is appended to no Message.
C25_EachMessageOnce ==
    (seg_pc = "parsed" /\ seg_impl = "parser") =>
        /\ Len(seg.messages) =
               Cardinality({i \in 1..Len(lines) :
                                IsHeader(lines[i]) /\ IsParseable(lines[i])})
        /\ \A j, k \in 1..Len(seg.messages) :
               seg.messages[j] = seg.messages[k] => j = k
        /\ \A k \in 1..Len(seg.heap) :
               seg.heap[k].content =
                   <<TextLine(Strip(lines[seg.origin[k]].text))>>
                       \o LinesOfHeader(seg.origin[k])

\* The hour and the minute of the day of "YYYY-MM-DDTHH:MM:SS".
HourOfDateTime(str) == ParseInt(SubSeq(str, 12, 13))
MinuteOfDateTime(str) == ParseInt(SubSeq(str, 15, 16))

\* C28: for an event with a start time and no end time, the end of the
\* calendar entry is a time of day (hour 0..23, minute 0..59) on the date of
\* the event and not before the start, whichever of the two functions built
\* the entry.
C28_EndTimeValid ==
    (/\ entry_call # "none"
     /\ entry_event.time_start # NoneStr
     /\ entry_event.time_end = NoneStr) =>
        /\ entry.kind = "dateTime"
        /\ Len(entry.end) = 19
        /\ SubSeq(entry.end, 1, 11) = IsoDate(entry_event.date) \o <<"T">>
        /\ HourOfDateTime(entry.end) \in 0..23
        /\ MinuteOfDateTime(entry.end) \in 0..59
        /\ HourOfDateTime(entry.end) * 60 + MinuteOfDateTime(entry.end) >=
               HourOfDateTime(entry.start) * 60 + MinuteOfDateTime(entry.start)

\* C30: when sync_events_to_calendar connected to the calendar and went
\* through the events, added + updated + skipped + failed is the number of
\* events passed in and there is one status per event.
C30_EveryEventCountedOnce ==
    (sync_pc = "done" /\ sync_results.success) =>
        /\ sync_results.added + sync_results.updated + sync_results.skipped
               + sync_results.failed = Len(sync_events)
        /\ Len(sync_results.details) = Len(sync_events)

\* C30 witness: a run over three events that counted a dateless event, an
\* event with an entry in the calendar and an API failure.
C30_Witness ==
    /\ sync_pc = "done"
    /\ sync_results.success
    /\ Len(sync_events) = 3
    /\ \E i, j, k \in 1..3 :
           /\ sync_results.details[i] = KeinDatum
           /\ sync_results.details[j] \in {Aktualisiert, BereitsVorhanden}
           /\ sync_results.details[k] \in {ApiFehler, Fehler}
    /\ sync_results.skipped >= 1
    /\ sync_results.failed = 1

\* C24: the store a new EventDatabase reads from the path after save() has
\* the ids the store in memory had at the save, each with an event equal to
\* the one held then.
C24_ReopenedEqualsSaved ==
    persist_pc = "reopened" =>
        /\ {reopened[k].id : k \in 1..Len(reopened)}
               = {at_save[k].id : k \in 1..Len(at_save)}
        /\ Len(reopened) = Len(at_save)
        /\ \A k \in 1..Len(at_save) :
               Stored(reopened, at_save[k].id) = at_save[k]

\* C24 witness: a store reopened with two events, one of them without a
\* date and one with a source timestamp, nothing added since the save.
C24_Witness ==
    /\ persist_pc = "reopened"
    /\ Len(reopened) = 2
    /\ \E k \in 1..2 : reopened[k].date = NoneInt
    /\ \E k \in 1..2 : reopened[k].source_timestamp # NoneDateTime
    /\ reopened = mem

\* The events whose message a run sent.
SentIn(run) ==
    {run.posting[k].event : k \in {j \in 1..Len(run.posting) : run.posting[j].sent}}

\* C27: the key get_posted_events reads out of the message of an event that
\* was sent is get_event_key of the event, and a second run without --force,
\* with the messages of the first still in the look-back window, sends no
\* event the first run sent.
C27_PostedKeyIsEventKey ==
    /\ \A r \in 1..Len(runs) :
           \A e \in SentIn(runs[r]) :
               PostedKey(format_event_messages(<<e>>)[1]) = {get_event_key(e)}
    /\ (/\ Len(runs) = 2
        /\ ~runs[2].force
        /\ \A k \in 1..Len(chat) : chat[k].recent) =>
           SentIn(runs[2]) \cap SentIn(runs[1]) = {}

\* C26: after two runs, the second with the last-sync timestamp the first
\* wrote as its cutoff, every message the group held when the second run
\* fetched, with a timestamp at or after the cutoff of the first run, was
\* analysed by one of the two runs.
C26_NoMessageMissed ==
    (/\ Len(sync_runs) = 2
     /\ sync_runs[1].wrote) =>
        \A k \in 1..sync_runs[2].fetched :
            group_msgs[k] >= sync_runs[1].cutoff =>
                k \in sync_runs[1].analysed \cup sync_runs[2].analysed


\* The chat line "25/01/2026, 10:00 - +491712345678: Wir suchen Gegner
\* f{ue}r Testspiel am 25.01. Niveau 5, Spielort Sporthalle Mitte, Startgeld
\* 20{euro}": the header with the slashes and the first five phrases.
FullLine ==
    <<"2", "5", "/", "0", "1", "/", "2", "0", "2", "6", ",", " ", "1", "0", ":", "0", "0", " ", "-", " ", "+", "4", "9", "1", "7", "1", "2", "3", "4", "5", "6", "7", "8", ":">>
        \o PipePhrases[1] \o PipePhrases[2] \o PipePhrases[3]
        \o PipePhrases[4] \o PipePhrases[5]
SporthalleMitte == <<"S", "p", "o", "r", "t", "h", "a", "l", "l", "e", " ", "M", "i", "t", "t", "e">>
TwentyEuro == <<"2", "0", "euro">>

\* C23: for that chat line, segmentation followed by extraction yields
\* exactly one event, a friendly match on 2026-01-25 with a populated skill
\* level, a location that contains "Sporthalle Mitte", the entry fee
\* "20{euro}" and a confidence above 0.4.
C23_FullLineEvent ==
    (pipe_pc = "extracted" /\ pipe_content = FullLine) =>
        /\ Len(pipe_events) = 1
        /\ pipe_events[1].event_type = "friendly_match"
        /\ pipe_events[1].date = 20260125
        /\ pipe_events[1].skill_level # <<>>
        /\ Contains(SporthalleMitte, pipe_events[1].location)
        /\ pipe_events[1].entry_fee = TwentyEuro
        /\ pipe_events[1].confidence > 4000

====
